---- MODULE Spec2Model ----
(***************************************************************************)
(* Verification model of SecUtility::Threading::ThreadPool                 *)
(* (SecUtility/Threading/ThreadPool.hpp).                                  *)
(*                                                                         *)
(* Threads: the owner thread (constructs and destroys the pool), the       *)
(* worker threads spawned by the constructor, and client threads calling   *)
(* Submit.  Every acquisition of m_Mutex, every critical section and every *)
(* notification is a separate step, so every interleaving this lock        *)
(* discipline allows is explored.  Steps that touch only thread-local data *)
(* are joined to the next step that touches shared data.                   *)
(***************************************************************************)
EXTENDS Integers, Sequences, FiniteSets, TLC

\* ---------------------------------------------------------------- bounds
MaxThreads == 2
NumSubmitters == 2
MaxTasks == 2
MaxArg == 1
MaxMult == 2
MaxCalls == 3
MaxClock == 4
MaxSessions == 2
MaxExtra == 1
MaxSeed == 2

\* ------------------------------------------------------------ identities
Max(a, b) == IF a >= b THEN a ELSE b

MaxWorkers == Max(MaxThreads, 1)
Workers == 1 .. MaxWorkers
Submitters == (MaxWorkers + 1) .. (MaxWorkers + NumSubmitters)
Owner == MaxWorkers + NumSubmitters + 1
NoThread == 0
TaskIds == 1 .. MaxTasks
NoTask == 0

BodyKinds == {"returns", "raises"}

VARIABLES
    numThreads,     \* constructor argument
    ctor,           \* constructor position: "running" | "done"
    m_Workers,      \* set of spawned worker threads (vector of std::thread)
    m_Tasks,        \* std::queue of pending tasks
    m_Mutex,        \* thread holding m_Mutex, or NoThread
    m_Condition,    \* threads blocked in m_Condition.wait
    m_Stop,         \* shutdown flag
    wpc,            \* position of each worker in WorkerThread
    wtask,          \* local variable `task` of each worker
    cpc,            \* position of each client inside Submit
    ctask,          \* packaged task the client is submitting
    nextTask,       \* next fresh packaged-task identity
    body,           \* what the callable of each task did when it ran
    submitter,      \* which thread submitted each task
    result,         \* how far the Submit call of each task got
    future,         \* shared state of each task's std::future
    execCount,      \* how many times each task body was invoked
    dtor,           \* destructor position
    clients,        \* scenario: how many client threads there are
    recording,      \* scenario: whether the history variables are kept
    enqueueOrder,   \* history: tasks in the order they were enqueued
    dequeueOrder,   \* history: tasks in the order they were dequeued
    startOrder,     \* history: tasks in the order their bodies began
    completeOrder,  \* history: tasks in the order their bodies finished
    batchLen,       \* history: tasks enqueued before the first dequeue
    guard,          \* MasterThreadPool: state of the static's initialisation
    instance,       \* MasterThreadPool: static ThreadPool* instance (0: unset)
    mpc,            \* position of each caller inside MasterThreadPool()
    raw,            \* MasterThreadPool: the initialiser's local pointer
    got,            \* the pool each caller's MasterThreadPool() returned
    constructions,  \* how many ThreadPool objects were constructed
    m_Cache,        \* CachedFunction<Result(Args...)>: std::map, as its entries
    m_Cache0,       \* CachedFunction<TResult()>: std::optional, << >> or << v >>
    multiplier,     \* state captured by the wrapped functions
    globalCallCount,\* how many times the wrapped functions were invoked
    computed,       \* history: values computed per argument since Clear()
    computed0,      \* history: values computed by the zero-argument form
    last,           \* the last operation on a CachedFunction and its outcome
    clockKind,      \* which stopwatch class: "Stopwatch" | "CpuStopwatch"
    now,            \* what GetTimestamp() returns at this moment
    m_Elapsed,      \* StopwatchBase: accumulated ticks
    m_IsRunning,    \* StopwatchBase: running flag
    m_StartTimestamp, \* the derived class's start timestamp
    sessionStart,   \* history: clock reading when the running session began
    sessions,       \* history: the sessions since the total was last zeroed
    swLast,         \* the last Stopwatch operation and the state it found
    scenario,       \* what the task bodies do: "none" or a recursive pattern
    plan,           \* the arguments each task was submitted with
    frame,          \* where each worker is inside the body it is executing
    input,          \* Checksum: the data, the initial value and the build
    checksums       \* Checksum: what each function returned for the input

vars == << numThreads, ctor, m_Workers, m_Tasks, m_Mutex, m_Condition, m_Stop,
           wpc, wtask, cpc, ctask, nextTask, body, submitter, result, future,
           execCount, dtor, clients, recording, enqueueOrder, dequeueOrder,
           startOrder, completeOrder, batchLen,
           guard, instance, mpc, raw, got, constructions,
           m_Cache, m_Cache0, multiplier, globalCallCount, computed,
           computed0, last,
           clockKind, now, m_Elapsed, m_IsRunning,
           m_StartTimestamp, sessionStart, sessions, swLast,
           scenario, plan, frame, input, checksums >>

poolVars == << m_Tasks, m_Mutex, m_Condition, m_Stop >>
ctorVars == << numThreads, ctor, m_Workers >>
workerVars == << wpc, wtask >>
callVars == << cpc, ctask, nextTask, submitter, result >>
taskVars == << body, future, execCount >>
histVars == << enqueueOrder, dequeueOrder, startOrder, completeOrder,
              batchLen >>
masterVars == << guard, instance, mpc, raw, got, constructions >>
cacheVars == << m_Cache, m_Cache0, multiplier, globalCallCount, computed,
                computed0, last >>
stopwatchVars == << clockKind, now, m_Elapsed, m_IsRunning,
                   m_StartTimestamp, sessionStart, sessions, swLast >>
nestVars == << scenario, plan, frame >>
checksumVars == << input, checksums >>
otherVars == << stopwatchVars, nestVars, checksumVars >>
threadPoolVars == << ctorVars, poolVars, workerVars, callVars, taskVars, dtor,
                     recording, clients, histVars, masterVars >>

\* ------------------------------------------------------- pure operators
Pending == << "pending", 0 >>
NoFuture == << "none", 0 >>

\* value returned by the callable of task t (tests: [i] { return i * 2; })
Value(t) == t * 2

PackagedTaskOutcome_SharedArgs(t, k) ==
    IF k = "raises" THEN << "failure", t >> ELSE << "value", Value(nextTask - 1) >>

PackagedTaskOutcome_Swallow(t, k) == << "value", Value(t) >>

\* std::packaged_task::operator(): runs the callable and stores what it
\* returned, or the exception it threw, in the shared state
PackagedTaskOutcome(t, k) ==
    IF k = "raises" THEN << "failure", t >> ELSE << "value", Value(t) >>

Escapes_Uncaught(t, k) == k = "raises"

\* (*task)(): whatever the callable throws is caught by the packaged task and
\* stored in its shared state, so nothing leaves the queue entry's call
Escapes(t, k) == FALSE

ThreadCountFor_NoCoerce(n) == n

\* const auto threadCount = std::max(numThreads, std::size_t{1});
ThreadCountFor(n) == Max(n, 1)

ThreadCount_Requested == numThreads

\* std::size_t ThreadCount() const noexcept
ThreadCount == Cardinality(m_Workers)

SubmitRejects_Never == FALSE

\* if (m_Stop) throw ...
SubmitRejects == m_Stop

Enqueue_Drop(q, t) == q

\* m_Tasks.emplace(...)
Enqueue(q, t) == Append(q, t)

WaitPredicate_StopOnly == m_Stop

\* m_Condition.wait(lock, [this] { return m_Stop || !m_Tasks.empty(); })
WaitPredicate == m_Stop \/ m_Tasks # << >>

WorkerShouldExit_NoDrain == m_Stop

\* if (m_Stop && m_Tasks.empty()) return;
WorkerShouldExit == m_Stop /\ m_Tasks = << >>

Front_Back(q) == q[Len(q)]

\* m_Tasks.front()
Front(q) == Head(q)

Pop_Keep(q) == q

\* m_Tasks.pop()
Pop(q) == Tail(q)

\* the pool object and its members exist
Alive == dtor # "returned"

GuardFree_Unguarded == instance = 0

\* a function-local static is initialised by the first thread to reach it;
\* threads arriving while that runs wait for it
GuardFree == guard = "uninit"

\* -------------------------------------------------------- CachedFunction
\* argument tuples (one int), the states the wrapped functions capture, and
\* how an argument is passed
Args == (-1) .. MaxArg
Mults == 1 .. MaxMult
Categories == {"lvalue", "rvalue"}

\* auto throwingFunc = [](int x) -> int { if (x < 0) throw ...; ... };
Throws(x, m) == x < 0

\* auto lambda = [&multiplier](int x) { return x * multiplier; };
Result(x, m) == x * m

\* auto noArgFunc = []() { return 42; };  here with captured state
Result0(m) == 42 * m

\* what m_Function receives: std::make_tuple(std::forward<ArgsToo>(args)...)
\* has already moved from an rvalue argument when m_Function is called with
\* std::forward<ArgsToo>(args)... again, so the function sees a moved-from
\* object, whose value is unspecified
Passed(a, cat) == IF cat = "rvalue" THEN Args ELSE {a}

Find_Miss(cache, k) == {}

\* m_Cache.find(argTuple): the entry with that key (no entry: end())
Find(cache, k) == { e \in cache : e[1] = k }

\* iterator->second of the entry with key k
At(cache, k) == (CHOOSE e \in cache : e[1] = k)[2]

\* m_Cache.emplace(std::move(argTuple), result): inserts unless the key is
\* already there
Emplace(cache, k, v) ==
    IF \E e \in cache : e[1] = k THEN cache ELSE cache \cup { << k, v >> }

AfterThrow_DefaultEntry(cache, k) == Emplace(cache, k, 0)

\* m_Function throws: the exception leaves operator() before the emplace
AfterThrow(cache, k) == cache

\* size_t Size() const noexcept { return m_Cache.size(); }
Size == Cardinality(m_Cache)

\* return m_Cache.has_value() ? 1 : 0;
Size0 == IF m_Cache0 # << >> THEN 1 ELSE 0

NoOp == [op |-> "none", arg |-> 0, outcome |-> "none", value |-> 0,
         ran |-> FALSE]

\* a CachedFunction of each form right after construction
CacheIdle ==
    /\ m_Cache = {}
    /\ m_Cache0 = << >>
    /\ multiplier \in Mults
    /\ globalCallCount = 0
    /\ computed = [a \in Args |-> << >>]
    /\ computed0 = << >>
    /\ last = NoOp

\* ------------------------------------------------------------- Stopwatch
ClockKinds == {"Stopwatch", "CpuStopwatch"}

\* static constexpr Int64 TicksPerSecond / NanosecondsPerTick
TicksPerSecond == 10000000
NanosecondsPerTick == 100

\* clock ticks of std::clock() per second (POSIX)
CLOCKS_PER_SEC == 1000000

\* high_resolution_clock readings are taken half a stopwatch tick apart, so
\* that the division by NanosecondsPerTick has something to drop
NanosPerReading == NanosecondsPerTick \div 2

\* C++ integer division truncates toward zero
Quot(a, b) == IF a >= 0 THEN a \div b ELSE -((-a) \div b)

\* GetRawElapsedFromStartUntilNowTicks() of the two derived classes, for a
\* start timestamp and the reading GetTimestamp() gives
RawElapsed(kind, start, reading) ==
    IF kind = "CpuStopwatch"
    THEN Quot((reading - start) * TicksPerSecond, CLOCKS_PER_SEC)
    ELSE Quot((reading - start) * NanosPerReading, NanosecondsPerTick)

AfterStop_NoClamp(elapsed, rawTicks) == elapsed + rawTicks

\* m_Elapsed += raw; if (m_Elapsed < 0) m_Elapsed = 0;
AfterStop(elapsed, rawTicks) ==
    IF elapsed + rawTicks < 0 THEN 0 ELSE elapsed + rawTicks

\* bool IsRunning() const noexcept
IsRunning == m_IsRunning

\* Int64 ElapsedTicks() const noexcept
ElapsedTicks ==
    IF m_IsRunning
    THEN m_Elapsed + RawElapsed(clockKind, m_StartTimestamp, now)
    ELSE m_Elapsed

NoSessions == [count |-> 0, sum |-> 0, negative |-> FALSE]

NoSwOp == [op |-> "none", wasRunning |-> FALSE, elapsed |-> 0, start |-> 0,
           at |-> 0, session |-> 0]

\* a stopwatch right after construction; the clock shows any reading
StopwatchIdle ==
    /\ clockKind = "Stopwatch"
    /\ now = 0
    /\ m_Elapsed = 0
    /\ m_IsRunning = FALSE
    /\ m_StartTimestamp = 0
    /\ sessionStart = 0
    /\ sessions = NoSessions
    /\ swLast = NoSwOp

\* ------------------------------------------------- recursive submission
\* the patterns of TEST_CASE "ThreadPool recursive patterns" and of the
\* disabled section "Recursive task submission"
DivideDepth == 2

DivideThreads_AsDepth == DivideDepth

DivideThreads == 4
DataSize == 1000
BaseSize == 10

NestWorkers == 1 .. Max(MaxWorkers, DivideThreads)
NestMaxTasks == Max(MaxThreads + 1, 2 ^ DivideDepth)
NestTasks == 1 .. NestMaxTasks

NoArgs == << 0, 0, 0 >>
Instr(o, a) == [op |-> o, arg |-> a]

\* std::accumulate(data.begin() + start, data.begin() + end, 0) over the
\* data 1, 2, ..., DataSize (std::iota(..., 1))
Accumulate(start, end) == (end * (end + 1) - start * (start + 1)) \div 2

\* parallelSum(data, start, end, depthLimit): what one call does, in order
RECURSIVE ParallelSum(_, _, _)
ParallelSum(start, end, depthLimit) ==
    IF end - start <= BaseSize \/ depthLimit <= 0
    THEN << Instr("base", << start, end, 0 >>) >>
    ELSE LET mid == start + (end - start) \div 2
         IN  << Instr("submit", << start, mid, depthLimit - 1 >>) >>
             \o ParallelSum(mid, end, depthLimit - 1)
             \o << Instr("get", NoArgs) >>

\* the body of a task of each pattern, as the calls it makes on the pool and
\* on the handles it holds
Program(sc, a) ==
    CASE sc = "chain" ->
            IF a[3] > 0
            THEN << Instr("submit", << 0, 0, a[3] - 1 >>),
                    Instr("wait", NoArgs) >>
            ELSE << >>
      [] sc = "fire" ->
            IF a[3] > 0
            THEN << Instr("forget", << 0, 0, a[3] - 1 >>),
                    Instr("forget", << 0, 0, a[3] - 1 >>) >>
            ELSE << >>
      [] sc = "divide" -> ParallelSum(a[1], a[2], a[3])

NoFrame == [pc |-> "none", todo |-> << >>, kids |-> << >>, acc |-> 0,
            child |-> NoTask]

\* the sequential base cases are local computation: they are done as soon
\* as they are reached
RECURSIVE Settle(_)
Settle(F) ==
    IF F.todo # << >> /\ Head(F.todo).op = "base"
    THEN LET a == Head(F.todo).arg
         IN  Settle([F EXCEPT !.todo = Tail(@),
                              !.acc = @ + Accumulate(a[1], a[2])])
    ELSE F

\* the body a worker is in, from the point it has reached
Frame(w) ==
    IF frame[w].pc = "none"
    THEN Settle([NoFrame EXCEPT !.pc = "run",
                                !.todo = Program(scenario, plan[wtask[w]])])
    ELSE frame[w]

FutureReady_Always(t) == TRUE

\* std::future::wait / get return once the shared state is ready
FutureReady(t) == future[t][1] \in {"value", "failure"}

\* no task body submits or waits
NestIdle ==
    /\ scenario = "none"
    /\ plan = [t \in TaskIds |-> NoArgs]
    /\ frame = [w \in Workers |-> NoFrame]

\* -------------------------------------------------------------- Checksum
\* A std::uint32_t is kept as its four bytes, least significant first, so
\* that every operation stays inside 32 bits.  A loop is the function from
\* the running value before it to the running value after it, and a loop over
\* a range is its first half followed by its second half, which visits the
\* range in the order the loop does.
Byte == 0 .. 255
Words == [1 .. 4 -> Byte]
ZeroWord == << 0, 0, 0, 0 >>

\* Checksum32{0xFFFFFFFF}
AllOnes == << 255, 255, 255, 255 >>

\* 0x82F63B78, the reflected CRC-32C (Castagnoli) polynomial
Castagnoli == << 120, 59, 246, 130 >>

\* the second template argument of SlicedSoftwareCrc32<16, 4> in Crc32C
CrcTemplateArgument == << 4, 0, 0, 0 >>

\* a ^ b on bytes: bit k of the result is set when bit k of a and bit k of b
\* differ
BitDiffers(a, b, k) == ((a \div 2 ^ k) + (b \div 2 ^ k)) % 2

BitXor(a, b) ==
    BitDiffers(a, b, 0) + 2 * (BitDiffers(a, b, 1) + 2 * (BitDiffers(a, b, 2)
    + 2 * (BitDiffers(a, b, 3) + 2 * (BitDiffers(a, b, 4)
    + 2 * (BitDiffers(a, b, 5) + 2 * (BitDiffers(a, b, 6)
    + 2 * BitDiffers(a, b, 7)))))))

\* x ^ y, x >> 1, x >> 8 on std::uint32_t
WordXor(x, y) ==
    << BitXor(x[1], y[1]), BitXor(x[2], y[2]), BitXor(x[3], y[3]),
       BitXor(x[4], y[4]) >>

ShiftRight1(x) ==
    << x[1] \div 2 + (x[2] % 2) * 128, x[2] \div 2 + (x[3] % 2) * 128,
       x[3] \div 2 + (x[4] % 2) * 128, x[4] \div 2 >>

ShiftRight8(x) == << x[2], x[3], x[4], 0 >>

\* for (int j = 0; j < 8; ++j) crc = (crc >> 1) ^ ((crc & 1) ? Poly : 0);
RECURSIVE ShiftOut(_, _, _)
ShiftOut(poly, crc, j) ==
    IF j = 0 THEN crc
    ELSE IF crc[1] % 2 = 1
    THEN ShiftOut(poly, WordXor(ShiftRight1(crc), poly), j - 1)
    ELSE ShiftOut(poly, WordXor(ShiftRight1(crc), ZeroWord), j - 1)

\* GenerateCrcEntry(i) of Crc32Table<Crc32Polynomial>
GenerateCrcEntry(poly, i) == ShiftOut(poly, << i, 0, 0, 0 >>, 8)

\* Crc32Table<Crc32Polynomial>
Crc32Table(poly) == [i \in Byte |-> GenerateCrcEntry(poly, i)]

\* prev = tables[t - 1][i]; tables[t][i] = (prev >> 8) ^ tables[0][prev &
\* 0xFF]: count of these steps from prev
RECURSIVE NextSlices(_, _)
NextSlices(poly, count) ==
    [prev \in Words |->
        IF count = 0 THEN prev
        ELSE IF count = 1
        THEN WordXor(ShiftRight8(prev), Crc32Table(poly)[prev[1]])
        ELSE NextSlices(poly, count - count \div 2)[
                 NextSlices(poly, count \div 2)[prev]]]

\* SlicedCrc32Tables<Crc32Polynomial, SliceCount>[t]
SlicedCrc32Tables(poly, t) ==
    [i \in Byte |-> NextSlices(poly, t)[Crc32Table(poly)[i]]]

\* crc = Crc32Table[(crc ^ data[i]) & 0xFF] ^ (crc >> 8), for the bytes of
\* data at the positions lo .. hi
RECURSIVE ByteLoop(_, _, _, _)
ByteLoop(poly, data, lo, hi) ==
    [crc \in Words |->
        IF lo > hi THEN crc
        ELSE IF lo = hi
        THEN WordXor(Crc32Table(poly)[BitXor(crc[1], data[lo])],
                     ShiftRight8(crc))
        ELSE ByteLoop(poly, data, (lo + hi) \div 2 + 1, hi)[
                 ByteLoop(poly, data, lo, (lo + hi) \div 2)[crc]]]

\* SoftwareCrc32<Crc32Polynomial>(data, byteCount, crc)
SoftwareCrc32(poly, data, crc) ==
    WordXor(ByteLoop(poly, data, 1, Len(data))[crc], AllOnes)

\* SoftwareCrc32C(data, byteCount, crc)
SoftwareCrc32C(data, crc) == SoftwareCrc32(Castagnoli, data, crc)

\* the xor of the table entries for the bytes lo .. hi of the block of
\* SliceCount bytes at position i: one is the first four bytes xored with
\* the running value, and byte k of the block indexes table SliceCount - k
RECURSIVE BlockXor(_, _, _, _, _, _, _)
BlockXor(poly, sliceCount, data, i, one, lo, hi) ==
    IF lo = hi
    THEN SlicedCrc32Tables(poly, sliceCount - lo)[
             IF lo <= 4 THEN one[lo] ELSE data[i + lo - 1]]
    ELSE WordXor(BlockXor(poly, sliceCount, data, i, one, lo,
                          (lo + hi) \div 2),
                 BlockXor(poly, sliceCount, data, i, one,
                          (lo + hi) \div 2 + 1, hi))

\* while (byteCount >= SliceCount * DegreeOfUnroll) { ... } with
\* DegreeOfUnroll = 1, for the blocks lo .. hi of data
RECURSIVE SlicedLoop(_, _, _, _, _)
SlicedLoop(poly, sliceCount, data, lo, hi) ==
    [crc \in Words |->
        IF lo > hi THEN crc
        ELSE IF lo = hi
        THEN BlockXor(poly, sliceCount, data, sliceCount * (lo - 1) + 1,
                      WordXor(<< data[sliceCount * (lo - 1) + 1],
                                 data[sliceCount * (lo - 1) + 2],
                                 data[sliceCount * (lo - 1) + 3],
                                 data[sliceCount * (lo - 1) + 4] >>, crc),
                      1, sliceCount)
        ELSE SlicedLoop(poly, sliceCount, data, (lo + hi) \div 2 + 1, hi)[
                 SlicedLoop(poly, sliceCount, data, lo, (lo + hi) \div 2)[
                     crc]]]

\* SlicedSoftwareCrc32<SliceCount, Crc32Polynomial>(data, byteCount, crc):
\* the whole blocks, then the byte loop for what is left
SlicedSoftwareCrc32(sliceCount, poly, data, crc) ==
    WordXor(ByteLoop(poly, data, sliceCount * (Len(data) \div sliceCount) + 1,
                     Len(data))[
                SlicedLoop(poly, sliceCount, data, 1,
                           Len(data) \div sliceCount)[crc]],
            AllOnes)

\* SlicedSoftwareCrc32C<SliceCount>(data, byteCount, crc)
SlicedSoftwareCrc32C(sliceCount, data, crc) ==
    SlicedSoftwareCrc32(sliceCount, Castagnoli, data, crc)

\* _mm_crc32_u8: the SSE4.2 crc32 instruction accumulates CRC-32C over one
\* byte
MmCrc32U8(crc, b) == ShiftOut(Castagnoli, WordXor(crc, << b, 0, 0, 0 >>), 8)

\* _mm_crc32_u8 over the bytes lo .. hi of data; _mm_crc32_u64 is this over
\* eight bytes, lowest address first
RECURSIVE MmCrc32Loop(_, _, _)
MmCrc32Loop(data, lo, hi) ==
    [crc \in Words |->
        IF lo > hi THEN crc
        ELSE IF lo = hi THEN MmCrc32U8(crc, data[lo])
        ELSE MmCrc32Loop(data, (lo + hi) \div 2 + 1, hi)[
                 MmCrc32Loop(data, lo, (lo + hi) \div 2)[crc]]]

\* while (byteCount >= 8) _crc = _mm_crc32_u64(...), then
\* while (byteCount--) _crc = _mm_crc32_u8(...)
HardwareLoop(data, crc) ==
    MmCrc32Loop(data, 8 * (Len(data) \div 8) + 1, Len(data))[
        MmCrc32Loop(data, 1, 8 * (Len(data) \div 8))[crc]]

\* HardwareCrc32C(data, byteCount, crc)
HardwareCrc32C(data, crc) == WordXor(HardwareLoop(data, crc), AllOnes)

HardwareThreshold == 128
SliceCount == 16

\* Crc32C(data, byteCount, crc): HardwareCrc32C for 128 bytes or more when
\* the build has SSE4.2, else SlicedSoftwareCrc32<16, 4>(data, byteCount,
\* crc), which names the overload template <std::size_t SliceCount,
\* std::uint32_t Crc32Polynomial>
Crc32C(hardware, data, crc) ==
    IF hardware /\ Len(data) >= HardwareThreshold
    THEN HardwareCrc32C(data, crc)
    ELSE SlicedSoftwareCrc32(SliceCount, CrcTemplateArgument, data, crc)

\* the inputs: byte sequences of the lengths around each loop bound
Lengths ==
    UNION { { base + k : k \in 0 .. MaxExtra } :
            base \in {0, SliceCount, HardwareThreshold} }

Bytes(seed, n) == [i \in 1 .. n |-> (seed * (i - 1) + 1) % 256]

NoChecksums == [crc32c |-> << >>, software |-> << >>, sliced |-> << >>]

\* nothing has been checksummed
ChecksumIdle ==
    /\ input = [data |-> << >>, crc |-> AllOnes, hardware |-> FALSE]
    /\ checksums = NoChecksums

OtherIdle == StopwatchIdle /\ NestIdle /\ ChecksumIdle

\* ------------------------------------------------------------------ Init
\* no MasterThreadPool() call has been made
MasterIdle ==
    /\ guard = "uninit"
    /\ instance = 0
    /\ mpc = [c \in Submitters |-> "none"]
    /\ raw = [c \in Submitters |-> 0]
    /\ got = [c \in Submitters |-> 0]
    /\ constructions = 0

\* a pool with m_Stop(false), no worker and an empty queue, and threads that
\* have not done anything
Fresh(rec, n) ==
    /\ recording = rec
    /\ clients = n
    /\ numThreads \in 0 .. MaxThreads
    /\ m_Workers = {}
    /\ m_Tasks = << >>
    /\ m_Mutex = NoThread
    /\ m_Condition = {}
    /\ m_Stop = FALSE
    /\ wpc = [w \in Workers |-> "unspawned"]
    /\ wtask = [w \in Workers |-> NoTask]
    /\ cpc = [c \in Submitters |-> "idle"]
    /\ ctask = [c \in Submitters |-> NoTask]
    /\ nextTask = 1
    /\ body = [t \in TaskIds |-> "none"]
    /\ submitter = [t \in TaskIds |-> NoThread]
    /\ result = [t \in TaskIds |-> "none"]
    /\ future = [t \in TaskIds |-> NoFuture]
    /\ execCount = [t \in TaskIds |-> 0]
    /\ dtor = "none"
    /\ enqueueOrder = << >>
    /\ dequeueOrder = << >>
    /\ startOrder = << >>
    /\ completeOrder = << >>
    /\ batchLen = 0

\* the state when the constructor body is entered
InitWith(rec, n) ==
    /\ Fresh(rec, n)
    /\ ctor = "running"
    /\ MasterIdle
    /\ CacheIdle /\ multiplier = 1
    /\ OtherIdle

Init == InitWith(FALSE, NumSubmitters)

\* ------------------------------------------------------------- histories
\* history variables: they record the order of the enqueues, dequeues, body
\* starts and body ends of a step and influence nothing; they are kept only
\* when recording is on
Record(log, S) == IF S = {} THEN log ELSE Append(log, CHOOSE x \in S : TRUE)

History ==
    /\ UNCHANGED << recording, clients >>
    /\ LET enq == { ctask[c] : c \in { x \in Submitters :
                       cpc[x] = "locked" /\ cpc'[x] = "notify" } }
           deq == { wtask'[w] : w \in { x \in Workers :
                       wpc[x] = "locked" /\ wpc'[x] = "dequeued" } }
           beg == { wtask[w] : w \in { x \in Workers :
                       wpc[x] = "dequeued" /\ wpc'[x] = "exec" } }
           fin == { wtask[w] : w \in { x \in Workers :
                       wpc[x] = "exec" /\ wpc'[x] = "lock" } }
       IN  IF recording
           THEN /\ enqueueOrder' = Record(enqueueOrder, enq)
                /\ dequeueOrder' = Record(dequeueOrder, deq)
                /\ startOrder' = Record(startOrder, beg)
                /\ completeOrder' = Record(completeOrder, fin)
                /\ batchLen' = IF enq # {} /\ dequeueOrder = << >>
                               THEN batchLen + 1 ELSE batchLen
           ELSE UNCHANGED histVars

\* a step of the pool itself leaves the MasterThreadPool state and the
\* CachedFunction objects alone
Observer ==
    /\ History
    /\ UNCHANGED masterVars
    /\ UNCHANGED cacheVars
    /\ UNCHANGED otherVars

\* ----------------------------------------------------------- constructor
\* m_Workers.emplace_back([this] { WorkerThread(); });
CtorSpawn ==
    /\ ctor = "running"
    /\ Cardinality(m_Workers) < ThreadCountFor(numThreads)
    /\ LET w == Cardinality(m_Workers) + 1 IN
        /\ m_Workers' = m_Workers \cup {w}
        /\ wpc' = [wpc EXCEPT ![w] = "lock"]
    /\ UNCHANGED << numThreads, ctor, poolVars, wtask, callVars, taskVars,
                    dtor >>
    /\ Observer

\* the loop ends (i == threadCount) and the constructor returns
CtorReturn ==
    /\ ctor = "running"
    /\ Cardinality(m_Workers) >= ThreadCountFor(numThreads)
    /\ ctor' = "done"
    /\ UNCHANGED << numThreads, m_Workers, poolVars, workerVars, callVars,
                    taskVars, dtor >>
    /\ Observer

\* m_Workers.emplace_back(...) throws (std::system_error: no thread could be
\* started).  The constructor has no handler, so the exception unwinds it:
\* ~ThreadPool is not run (the object was never constructed) and the members
\* are destroyed in reverse order, m_Workers last.  With no worker yet the
\* exception reaches the caller.  With a worker already started, destroying
\* its joinable std::thread calls std::terminate, which ends the process
\* with that worker never stopped or joined; and a worker that meanwhile
\* uses the destroyed m_Mutex or m_Condition is undefined behaviour.
CtorSpawnFails ==
    /\ ctor = "running"
    /\ Cardinality(m_Workers) < ThreadCountFor(numThreads)
    /\ IF m_Workers = {}
       THEN /\ ctor' = "threw"
            /\ UNCHANGED wpc
       ELSE \E outcome \in {"aborted", "undefined"} :
            /\ ctor' = outcome
            /\ wpc' = [w \in Workers |->
                         IF w \in m_Workers THEN outcome ELSE wpc[w]]
    /\ m_Condition' = {}
    /\ UNCHANGED << numThreads, m_Workers, m_Tasks, m_Mutex, m_Stop, wtask,
                    callVars, taskVars, dtor >>
    /\ Observer

\* ---------------------------------------------------------------- Submit
\* the client threads that exist; they are interchangeable, so they are
\* numbered in the order of their first call
MayCall(c) ==
    /\ c - MaxWorkers <= clients
    /\ \A d \in Submitters : d < c => \E t \in TaskIds : submitter[t] = d

\* make_shared<packaged_task>(...); result = packagedTask->get_future();
\* std::lock_guard lock(m_Mutex);
SubmitLock(c) ==
    /\ ctor = "done"
    /\ Alive
    /\ MayCall(c)
    /\ cpc[c] = "idle"
    /\ nextTask <= MaxTasks
    /\ m_Mutex = NoThread
    /\ m_Mutex' = c
    /\ submitter' = [submitter EXCEPT ![nextTask] = c]
    /\ future' = [future EXCEPT ![nextTask] = Pending]
    /\ ctask' = [ctask EXCEPT ![c] = nextTask]
    /\ nextTask' = nextTask + 1
    /\ cpc' = [cpc EXCEPT ![c] = "locked"]
    /\ UNCHANGED << ctorVars, m_Tasks, m_Condition, m_Stop, workerVars,
                    result, body, execCount, dtor >>
    /\ Observer

\* if (m_Stop) throw std::runtime_error(...); unwinding releases the lock
\* and destroys the packaged task and its future
SubmitThrow(c) ==
    /\ Alive
    /\ cpc[c] = "locked"
    /\ SubmitRejects
    /\ m_Mutex' = NoThread
    /\ result' = [result EXCEPT ![ctask[c]] = "threw"]
    /\ future' = [future EXCEPT ![ctask[c]] = NoFuture]
    /\ cpc' = [cpc EXCEPT ![c] = "idle"]
    /\ ctask' = [ctask EXCEPT ![c] = NoTask]
    /\ UNCHANGED << ctorVars, m_Tasks, m_Condition, m_Stop, workerVars,
                    nextTask, submitter, body, execCount, dtor >>
    /\ Observer

SubmitEnqueue_NeedsIdleWorker(c) ==
    /\ Alive
    /\ cpc[c] = "locked"
    /\ ~SubmitRejects
    /\ m_Condition # {}
    /\ m_Tasks' = Enqueue(m_Tasks, ctask[c])
    /\ m_Mutex' = NoThread
    /\ result' = [result EXCEPT ![ctask[c]] = "enqueued"]
    /\ cpc' = [cpc EXCEPT ![c] = "notify"]
    /\ UNCHANGED << ctorVars, m_Condition, m_Stop, workerVars, ctask, nextTask,
                    submitter, taskVars, dtor >>
    /\ Observer

\* m_Tasks.emplace([task = std::move(packagedTask)] { (*task)(); }); unlock
SubmitEnqueue(c) ==
    /\ Alive
    /\ cpc[c] = "locked"
    /\ ~SubmitRejects
    /\ m_Tasks' = Enqueue(m_Tasks, ctask[c])
    /\ m_Mutex' = NoThread
    /\ result' = [result EXCEPT ![ctask[c]] = "enqueued"]
    /\ cpc' = [cpc EXCEPT ![c] = "notify"]
    /\ UNCHANGED << ctorVars, m_Condition, m_Stop, workerVars, ctask, nextTask,
                    submitter, taskVars, dtor >>
    /\ Observer

SubmitNotify_Skip(c) ==
    /\ Alive
    /\ cpc[c] = "notify"
    /\ result' = [result EXCEPT ![ctask[c]] = "handle"]
    /\ cpc' = [cpc EXCEPT ![c] = "idle"]
    /\ ctask' = [ctask EXCEPT ![c] = NoTask]
    /\ UNCHANGED << ctorVars, poolVars, workerVars, nextTask, submitter,
                    taskVars, dtor >>
    /\ Observer

\* m_Condition.notify_one(); return result;
SubmitNotify(c) ==
    /\ Alive
    /\ cpc[c] = "notify"
    /\ \/ /\ m_Condition = {}
          /\ UNCHANGED << m_Condition, wpc >>
       \/ \E w \in m_Condition :
            /\ m_Condition' = m_Condition \ {w}
            /\ wpc' = [wpc EXCEPT ![w] = "lock"]
    /\ result' = [result EXCEPT ![ctask[c]] = "handle"]
    /\ cpc' = [cpc EXCEPT ![c] = "idle"]
    /\ ctask' = [ctask EXCEPT ![c] = NoTask]
    /\ UNCHANGED << ctorVars, m_Tasks, m_Mutex, m_Stop, wtask, nextTask,
                    submitter, taskVars, dtor >>
    /\ Observer

\* a Submit call still in flight when the pool's members have been destroyed
\* touches destroyed objects: undefined behaviour, no outcome is promised
SubmitAfterDestroy(c) ==
    /\ ~Alive
    /\ cpc[c] \in {"locked", "notify"}
    /\ cpc' = [cpc EXCEPT ![c] = "undefined"]
    /\ UNCHANGED << ctorVars, poolVars, workerVars, ctask, nextTask, submitter,
                    result, taskVars, dtor >>
    /\ Observer

\* ---------------------------------------------------------- WorkerThread
\* std::unique_lock lock(m_Mutex);  (also: re-acquire after a wake-up)
WorkerLock(w) ==
    /\ wpc[w] = "lock"
    /\ m_Mutex = NoThread
    /\ m_Mutex' = w
    /\ wpc' = [wpc EXCEPT ![w] = "locked"]
    /\ UNCHANGED << ctorVars, m_Tasks, m_Condition, m_Stop, wtask, callVars,
                    taskVars, dtor >>
    /\ Observer

\* predicate false: wait() releases the lock and blocks
WorkerWait(w) ==
    /\ wpc[w] = "locked"
    /\ ~WaitPredicate
    /\ m_Mutex' = NoThread
    /\ m_Condition' = m_Condition \cup {w}
    /\ wpc' = [wpc EXCEPT ![w] = "waiting"]
    /\ UNCHANGED << ctorVars, m_Tasks, m_Stop, wtask, callVars, taskVars,
                    dtor >>
    /\ Observer

\* condition variables may wake spuriously
WorkerSpuriousWake(w) ==
    /\ w \in m_Condition
    /\ m_Condition' = m_Condition \ {w}
    /\ wpc' = [wpc EXCEPT ![w] = "lock"]
    /\ UNCHANGED << ctorVars, m_Tasks, m_Mutex, m_Stop, wtask, callVars,
                    taskVars, dtor >>
    /\ Observer

\* if (m_Stop && m_Tasks.empty()) return;
WorkerExit(w) ==
    /\ wpc[w] = "locked"
    /\ WaitPredicate
    /\ WorkerShouldExit
    /\ m_Mutex' = NoThread
    /\ wpc' = [wpc EXCEPT ![w] = "terminated"]
    /\ UNCHANGED << ctorVars, m_Tasks, m_Condition, m_Stop, wtask, callVars,
                    taskVars, dtor >>
    /\ Observer

WorkerDequeue_KeepLock(w) ==
    /\ wpc[w] = "locked"
    /\ WaitPredicate
    /\ ~WorkerShouldExit
    /\ m_Tasks # << >>
    /\ wtask' = [wtask EXCEPT ![w] = Front(m_Tasks)]
    /\ m_Tasks' = Pop(m_Tasks)
    /\ wpc' = [wpc EXCEPT ![w] = "dequeued"]
    /\ UNCHANGED << ctorVars, m_Mutex, m_Condition, m_Stop, callVars,
                    taskVars, dtor >>
    /\ Observer

\* task = std::move(m_Tasks.front()); m_Tasks.pop(); unlock
WorkerDequeue(w) ==
    /\ wpc[w] = "locked"
    /\ WaitPredicate
    /\ ~WorkerShouldExit
    /\ m_Tasks # << >>
    /\ wtask' = [wtask EXCEPT ![w] = Front(m_Tasks)]
    /\ m_Tasks' = Pop(m_Tasks)
    /\ m_Mutex' = NoThread
    /\ wpc' = [wpc EXCEPT ![w] = "dequeued"]
    /\ UNCHANGED << ctorVars, m_Condition, m_Stop, callVars, taskVars, dtor >>
    /\ Observer

WorkerInvoke_Publishes(w) ==
    /\ wpc[w] = "dequeued"
    /\ wtask[w] # NoTask
    /\ execCount' = [execCount EXCEPT ![wtask[w]] = @ + 1]
    /\ future' = [future EXCEPT ![wtask[w]] = << "value", Value(wtask[w]) >>]
    /\ wpc' = [wpc EXCEPT ![w] = "exec"]
    /\ UNCHANGED << ctorVars, poolVars, wtask, callVars, body, dtor >>
    /\ Observer

\* if (static_cast<bool>(task)) task();   -- the body begins
WorkerInvoke(w) ==
    /\ wpc[w] = "dequeued"
    /\ wtask[w] # NoTask
    /\ execCount' = [execCount EXCEPT ![wtask[w]] = @ + 1]
    /\ wpc' = [wpc EXCEPT ![w] = "exec"]
    /\ UNCHANGED << ctorVars, poolVars, wtask, callVars, body, future, dtor >>
    /\ Observer

\* the body ends by returning or by raising; the packaged task makes its
\* shared state ready; the worker goes round the while (true) loop
WorkerFinish(w) ==
    /\ wpc[w] = "exec"
    /\ \E k \in BodyKinds :
        /\ body' = [body EXCEPT ![wtask[w]] = k]
        /\ future' = [future EXCEPT ![wtask[w]] =
                        PackagedTaskOutcome(wtask[w], k)]
        /\ wpc' = [wpc EXCEPT ![w] = IF Escapes(wtask[w], k)
                                      THEN "terminated" ELSE "lock"]
    /\ wtask' = [wtask EXCEPT ![w] = NoTask]
    /\ UNCHANGED << ctorVars, poolVars, callVars, execCount, dtor >>
    /\ Observer

\* ----------------------------------------------------------- ~ThreadPool
\* std::lock_guard lock(m_Mutex);
DtorLock ==
    /\ ctor = "done"
    /\ dtor = "none"
    /\ m_Mutex = NoThread
    /\ m_Mutex' = Owner
    /\ dtor' = "locked"
    /\ UNCHANGED << ctorVars, m_Tasks, m_Condition, m_Stop, workerVars,
                    callVars, taskVars >>
    /\ Observer

\* m_Stop = true; unlock
DtorSetStop ==
    /\ dtor = "locked"
    /\ m_Stop' = TRUE
    /\ m_Mutex' = NoThread
    /\ dtor' = "notify"
    /\ UNCHANGED << ctorVars, m_Tasks, m_Condition, workerVars, callVars,
                    taskVars >>
    /\ Observer

DtorNotifyAll_Skip ==
    /\ dtor = "notify"
    /\ dtor' = "join"
    /\ UNCHANGED << ctorVars, poolVars, workerVars, callVars, taskVars >>
    /\ Observer

\* m_Condition.notify_all();
DtorNotifyAll ==
    /\ dtor = "notify"
    /\ m_Condition' = {}
    /\ wpc' = [w \in DOMAIN wpc |->
                IF w \in m_Condition THEN "lock" ELSE wpc[w]]
    /\ dtor' = "join"
    /\ UNCHANGED << ctorVars, m_Tasks, m_Mutex, m_Stop, wtask, callVars,
                    taskVars >>
    /\ Observer

\* for (auto& worker : m_Workers) if (worker.joinable()) worker.join();
\* then the destructor body ends and the members are destroyed
DtorJoin ==
    /\ dtor = "join"
    /\ \A w \in m_Workers : wpc[w] = "terminated"
    /\ dtor' = "returned"
    /\ UNCHANGED << ctorVars, poolVars, workerVars, callVars, taskVars >>
    /\ Observer

\* ------------------------------------------------------------------ Next
\* one step of one thread of the program
Next ==
    \/ CtorSpawn
    \/ CtorReturn
    \/ \E c \in Submitters : SubmitLock(c)
    \/ \E c \in Submitters : SubmitThrow(c)
    \/ \E c \in Submitters : SubmitEnqueue(c)
    \/ \E c \in Submitters : SubmitNotify(c)
    \/ \E c \in Submitters : SubmitAfterDestroy(c)
    \/ \E w \in Workers : WorkerLock(w)
    \/ \E w \in Workers : WorkerWait(w)
    \/ \E w \in Workers : WorkerSpuriousWake(w)
    \/ \E w \in Workers : WorkerExit(w)
    \/ \E w \in Workers : WorkerDequeue(w)
    \/ \E w \in Workers : WorkerInvoke(w)
    \/ \E w \in Workers : WorkerFinish(w)
    \/ DtorLock
    \/ DtorSetStop
    \/ DtorNotifyAll
    \/ DtorJoin

\* all client threads, no histories
Spec == Init /\ [][Next]_vars

\* the pool when starting a thread may fail
FailNext ==
    \/ Next
    \/ CtorSpawnFails

FailSpec == Init /\ [][FailNext]_vars

\* ------------------------------------------------------ MasterThreadPool
\* static ThreadPool* instance = [] { ... }();  the first caller runs the
\* initialiser: std::make_unique<ThreadPool>(hardware_concurrency())
MasterEnter(c) ==
    /\ mpc[c] = "none"
    /\ GuardFree
    /\ guard' = "running"
    /\ constructions' = constructions + 1
    /\ raw' = [raw EXCEPT ![c] = constructions + 1]
    /\ mpc' = [mpc EXCEPT ![c] = "init"]
    /\ ctor' = "running"
    /\ UNCHANGED << numThreads, m_Workers, poolVars, workerVars, callVars,
                    taskVars, dtor, instance, got >>
    /\ History
    /\ UNCHANGED cacheVars
    /\ UNCHANGED otherVars

\* auto* raw = ptr.release(); return raw;  the static is set and its
\* initialisation is complete; return *instance;
MasterPublish(c) ==
    /\ mpc[c] = "init"
    /\ ctor = "done"
    /\ instance' = raw[c]
    /\ guard' = "done"
    /\ got' = [got EXCEPT ![c] = raw[c]]
    /\ mpc' = [mpc EXCEPT ![c] = "done"]
    /\ UNCHANGED << ctorVars, poolVars, workerVars, callVars, taskVars, dtor,
                    raw, constructions >>
    /\ History
    /\ UNCHANGED cacheVars
    /\ UNCHANGED otherVars

\* a call that finds the static initialised (after waiting for a running
\* initialisation to end, if there is one): return *instance;
MasterReturn(c) ==
    /\ mpc[c] \in {"none", "done"}
    /\ guard = "done"
    /\ got' = [got EXCEPT ![c] = instance]
    /\ mpc' = [mpc EXCEPT ![c] = "done"]
    /\ UNCHANGED << ctorVars, poolVars, workerVars, callVars, taskVars, dtor,
                    guard, instance, raw, constructions >>
    /\ History
    /\ UNCHANGED cacheVars
    /\ UNCHANGED otherVars

\* MasterThreadPool().Submit(...)
MasterSubmitLock(c) ==
    /\ got[c] # 0
    /\ SubmitLock(c)

\* the program that uses only the master pool: nothing deletes it, so no
\* destructor step exists; the throw of Submit and the return of
\* WorkerThread need m_Stop, which only the destructor sets, and are left out
\* (they are never enabled here)
MasterNext ==
    \/ \E c \in Submitters : MasterEnter(c)
    \/ CtorSpawn
    \/ CtorReturn
    \/ \E c \in Submitters : MasterPublish(c)
    \/ \E c \in Submitters : MasterReturn(c)
    \/ \E c \in Submitters : MasterSubmitLock(c)
    \/ \E c \in Submitters : SubmitEnqueue(c)
    \/ \E c \in Submitters : SubmitNotify(c)
    \/ \E w \in Workers : WorkerLock(w)
    \/ \E w \in Workers : WorkerWait(w)
    \/ \E w \in Workers : WorkerSpuriousWake(w)
    \/ \E w \in Workers : WorkerDequeue(w)
    \/ \E w \in Workers : WorkerInvoke(w)
    \/ \E w \in Workers : WorkerFinish(w)

\* no pool exists until the first MasterThreadPool() call
MasterInit ==
    /\ Fresh(FALSE, NumSubmitters)
    /\ ctor = "none"
    /\ MasterIdle
    /\ CacheIdle /\ multiplier = 1
    /\ OtherIdle

MasterSpec == MasterInit /\ [][MasterNext]_vars

\* -------------------------------------------------------- CachedFunction
\* const Result& operator()(ArgsToo&&... args): a hit returns the entry; a
\* miss invokes m_Function and, unless that throws, emplaces its result and
\* returns the entry
Call(a, cat) ==
    /\ IF Find(m_Cache, a) # {}
       THEN /\ last' = [op |-> "call", arg |-> a, outcome |-> "value",
                        value |-> At(m_Cache, a), ran |-> FALSE]
            /\ UNCHANGED << m_Cache, globalCallCount, computed >>
       ELSE /\ globalCallCount < MaxCalls
            /\ globalCallCount' = globalCallCount + 1
            /\ \E x \in Passed(a, cat) :
                IF Throws(x, multiplier)
                THEN /\ m_Cache' = AfterThrow(m_Cache, a)
                     /\ last' = [op |-> "call", arg |-> a,
                                 outcome |-> "threw", value |-> 0,
                                 ran |-> TRUE]
                     /\ UNCHANGED computed
                ELSE /\ m_Cache' = Emplace(m_Cache, a, Result(x, multiplier))
                     /\ last' = [op |-> "call", arg |-> a,
                                 outcome |-> "value",
                                 value |-> At(m_Cache', a), ran |-> TRUE]
                     /\ computed' = [computed EXCEPT ![a] =
                                        Append(@, Result(x, multiplier))]
    /\ UNCHANGED << m_Cache0, multiplier, computed0, threadPoolVars, otherVars >>

ConstCall_Computes(a) ==
    /\ IF Find(m_Cache, a) = {}
       THEN /\ globalCallCount < MaxCalls
            /\ globalCallCount' = globalCallCount + 1
            /\ m_Cache' = Emplace(m_Cache, a, Result(a, multiplier))
            /\ computed' = [computed EXCEPT ![a] =
                               Append(@, Result(a, multiplier))]
            /\ last' = [op |-> "constcall", arg |-> a, outcome |-> "value",
                        value |-> Result(a, multiplier), ran |-> TRUE]
       ELSE /\ last' = [op |-> "constcall", arg |-> a, outcome |-> "value",
                        value |-> At(m_Cache, a), ran |-> FALSE]
            /\ UNCHANGED << m_Cache, globalCallCount, computed >>
    /\ UNCHANGED << m_Cache0, multiplier, computed0, threadPoolVars, otherVars >>

\* const Result& operator()(ArgsToo&&... args) const
ConstCall(a) ==
    /\ IF Find(m_Cache, a) = {}
       THEN last' = [op |-> "constcall", arg |-> a,
                     outcome |-> "out_of_range", value |-> 0, ran |-> FALSE]
       ELSE last' = [op |-> "constcall", arg |-> a, outcome |-> "value",
                     value |-> At(m_Cache, a), ran |-> FALSE]
    /\ UNCHANGED << m_Cache, m_Cache0, multiplier, globalCallCount, computed,
                    computed0, threadPoolVars, otherVars >>

Clear_Keep ==
    /\ computed' = [a \in Args |-> << >>]
    /\ last' = [NoOp EXCEPT !.op = "clear"]
    /\ UNCHANGED << m_Cache, m_Cache0, multiplier, globalCallCount, computed0,
                    threadPoolVars, otherVars >>

\* void Clear() noexcept { m_Cache.clear(); }
Clear ==
    /\ m_Cache' = {}
    /\ computed' = [a \in Args |-> << >>]
    /\ last' = [NoOp EXCEPT !.op = "clear"]
    /\ UNCHANGED << m_Cache0, multiplier, globalCallCount, computed0,
                    threadPoolVars, otherVars >>

\* cached.Size()
SizeCall ==
    /\ last' = [NoOp EXCEPT !.op = "size", !.outcome = "value",
                             !.value = Size]
    /\ UNCHANGED << m_Cache, m_Cache0, multiplier, globalCallCount, computed,
                    computed0, threadPoolVars, otherVars >>

\* const TResult& operator()():
\* if (!m_Cache.has_value()) m_Cache = m_Function(); return m_Cache.value();
Call0 ==
    /\ IF m_Cache0 # << >>
       THEN /\ last' = [op |-> "call0", arg |-> 0, outcome |-> "value",
                        value |-> m_Cache0[1], ran |-> FALSE]
            /\ UNCHANGED << m_Cache0, globalCallCount, computed0 >>
       ELSE /\ globalCallCount < MaxCalls
            /\ globalCallCount' = globalCallCount + 1
            /\ m_Cache0' = << Result0(multiplier) >>
            /\ computed0' = Append(computed0, Result0(multiplier))
            /\ last' = [op |-> "call0", arg |-> 0, outcome |-> "value",
                        value |-> Result0(multiplier), ran |-> TRUE]
    /\ UNCHANGED << m_Cache, multiplier, computed, threadPoolVars, otherVars >>

\* const TResult& operator()() const
ConstCall0 ==
    /\ IF m_Cache0 = << >>
       THEN last' = [op |-> "constcall0", arg |-> 0,
                     outcome |-> "out_of_range", value |-> 0, ran |-> FALSE]
       ELSE last' = [op |-> "constcall0", arg |-> 0, outcome |-> "value",
                     value |-> m_Cache0[1], ran |-> FALSE]
    /\ UNCHANGED << m_Cache, m_Cache0, multiplier, globalCallCount, computed,
                    computed0, threadPoolVars, otherVars >>

\* void Clear() noexcept { m_Cache = std::nullopt; }
Clear0 ==
    /\ m_Cache0' = << >>
    /\ computed0' = << >>
    /\ last' = [NoOp EXCEPT !.op = "clear0"]
    /\ UNCHANGED << m_Cache, multiplier, globalCallCount, computed,
                    threadPoolVars, otherVars >>

\* cached.Size() of the zero-argument form
Size0Call ==
    /\ last' = [NoOp EXCEPT !.op = "size0", !.outcome = "value",
                             !.value = Size0]
    /\ UNCHANGED << m_Cache, m_Cache0, multiplier, globalCallCount, computed,
                    computed0, threadPoolVars, otherVars >>

\* multiplier = 5;  the captured state changes between calls
SetMultiplier(m) ==
    /\ m # multiplier
    /\ multiplier' = m
    /\ last' = [NoOp EXCEPT !.op = "set"]
    /\ UNCHANGED << m_Cache, m_Cache0, globalCallCount, computed, computed0,
                    threadPoolVars, otherVars >>

\* any sequence of operations on one CachedFunction of each form, from one
\* thread (the class is documented as not thread-safe)
CacheNext ==
    \/ \E a \in Args : \E cat \in Categories : Call(a, cat)
    \/ \E a \in Args : ConstCall(a)
    \/ Clear
    \/ SizeCall
    \/ Call0
    \/ ConstCall0
    \/ Clear0
    \/ Size0Call
    \/ \E m \in Mults : SetMultiplier(m)

\* no pool; the two CachedFunction objects just constructed
CacheInit ==
    /\ Fresh(FALSE, NumSubmitters)
    /\ numThreads = 0
    /\ ctor = "none"
    /\ MasterIdle
    /\ CacheIdle
    /\ OtherIdle

CacheSpec == CacheInit /\ [][CacheNext]_vars

\* one client thread, with the histories of the order of events
OrderInit == InitWith(TRUE, 1)

OrderSpec == OrderInit /\ [][Next]_vars

\* --------------------------------------------------------------- fairness
\* Every thread that has a step to take is eventually scheduled; when the
\* owner destroys the pool, when a client calls Submit and whether a waiting
\* thread wakes spuriously are not promised.  Each step of a thread moves that
\* thread's position, so the fairness conditions are subscripted by the
\* positions.
WorkerStep(w) ==
    \/ WorkerLock(w) \/ WorkerWait(w) \/ WorkerExit(w)
    \/ WorkerDequeue(w) \/ WorkerInvoke(w) \/ WorkerFinish(w)

SubmitStep(c) == SubmitThrow(c) \/ SubmitEnqueue(c) \/ SubmitNotify(c)

OwnerStep ==
    \/ CtorSpawn \/ CtorReturn
    \/ DtorSetStop \/ DtorNotifyAll \/ DtorJoin

FairSpec ==
    /\ Init
    /\ [][Next]_vars
    /\ \A w \in Workers : WF_wpc(WorkerStep(w))
    /\ \A c \in Submitters : WF_cpc(SubmitStep(c))
    /\ WF_<< ctor, wpc, dtor, m_Stop >>(OwnerStep)

\* ---------------------------------------------------------------- helpers
\* Task bodies are the callers' code and need not end: every thread is still
\* scheduled, but a worker inside a body is promised nothing.
LoopStep(w) ==
    \/ WorkerLock(w) \/ WorkerWait(w) \/ WorkerExit(w)
    \/ WorkerDequeue(w) \/ WorkerInvoke(w)

BusySpec ==
    /\ Init
    /\ [][Next]_vars
    /\ \A w \in Workers : WF_wpc(LoopStep(w))
    /\ \A c \in Submitters : WF_cpc(SubmitStep(c))
    /\ WF_<< ctor, wpc, dtor, m_Stop >>(OwnerStep)

\* ------------------------------------------------- recursive submission
NestObserver ==
    /\ History
    /\ UNCHANGED << masterVars, cacheVars, stopwatchVars, checksumVars >>

\* a worker inside a body whose next call is Submit
Submitting(w) ==
    /\ wpc[w] = "exec"
    /\ Frame(w).pc = "run"
    /\ Frame(w).todo # << >>
    /\ Head(Frame(w).todo).op \in {"submit", "forget"}

\* Submit called from inside a body: make_shared<packaged_task>(...);
\* get_future(); std::lock_guard lock(m_Mutex);
NestedSubmitLock(w) ==
    /\ Submitting(w)
    /\ nextTask <= NestMaxTasks
    /\ m_Mutex = NoThread
    /\ m_Mutex' = w
    /\ submitter' = [submitter EXCEPT ![nextTask] = w]
    /\ future' = [future EXCEPT ![nextTask] = Pending]
    /\ plan' = [plan EXCEPT ![nextTask] = Head(Frame(w).todo).arg]
    /\ frame' = [frame EXCEPT ![w] =
                    [Frame(w) EXCEPT !.pc = "locked", !.child = nextTask]]
    /\ nextTask' = nextTask + 1
    /\ UNCHANGED << ctorVars, m_Tasks, m_Condition, m_Stop, workerVars, cpc,
                    ctask, result, body, execCount, dtor, scenario >>
    /\ NestObserver

\* if (m_Stop) throw std::runtime_error(...): the lock is released, the
\* packaged task and its future are destroyed, and the exception leaves
\* Submit into the body that called it
NestedSubmitThrow(w) ==
    /\ wpc[w] = "exec"
    /\ frame[w].pc = "locked"
    /\ SubmitRejects
    /\ m_Mutex' = NoThread
    /\ result' = [result EXCEPT ![frame[w].child] = "threw"]
    /\ future' = [future EXCEPT ![frame[w].child] = NoFuture]
    /\ frame' = [frame EXCEPT ![w] = [@ EXCEPT !.pc = "raised"]]
    /\ UNCHANGED << ctorVars, m_Tasks, m_Condition, m_Stop, workerVars, cpc,
                    ctask, nextTask, submitter, body, execCount, dtor,
                    scenario, plan >>
    /\ NestObserver

\* m_Tasks.emplace(...); unlock
NestedSubmitEnqueue(w) ==
    /\ wpc[w] = "exec"
    /\ frame[w].pc = "locked"
    /\ ~SubmitRejects
    /\ m_Tasks' = Enqueue(m_Tasks, frame[w].child)
    /\ m_Mutex' = NoThread
    /\ result' = [result EXCEPT ![frame[w].child] = "enqueued"]
    /\ frame' = [frame EXCEPT ![w] = [@ EXCEPT !.pc = "notify"]]
    /\ UNCHANGED << ctorVars, m_Condition, m_Stop, workerVars, cpc, ctask,
                    nextTask, submitter, taskVars, dtor, scenario, plan >>
    /\ NestObserver

\* m_Condition.notify_one(); return result;  the body keeps the handle, or
\* drops it at once (a future from a packaged_task does not block when it
\* is destroyed)
NestedSubmitNotify(w) ==
    /\ wpc[w] = "exec"
    /\ frame[w].pc = "notify"
    /\ \/ /\ m_Condition = {}
          /\ UNCHANGED << m_Condition, wpc >>
       \/ \E v \in m_Condition :
            /\ m_Condition' = m_Condition \ {v}
            /\ wpc' = [wpc EXCEPT ![v] = "lock"]
    /\ result' = [result EXCEPT ![frame[w].child] = "handle"]
    /\ frame' = [frame EXCEPT ![w] =
          Settle([@ EXCEPT
              !.pc = "run",
              !.todo = Tail(@),
              !.kids = IF Head(frame[w].todo).op = "submit"
                       THEN Append(@, frame[w].child) ELSE @,
              !.child = NoTask])]
    /\ UNCHANGED << ctorVars, m_Tasks, m_Mutex, m_Stop, wtask, cpc, ctask,
                    nextTask, submitter, taskVars, dtor, scenario, plan >>
    /\ NestObserver

\* a worker inside a body whose next call is wait() or get() on the handle
\* it got last
Awaiting(w) ==
    /\ wpc[w] = "exec"
    /\ Frame(w).pc = "run"
    /\ Frame(w).todo # << >>
    /\ Head(Frame(w).todo).op \in {"wait", "get"}

Awaited(w) == Frame(w).kids[Len(Frame(w).kids)]

\* future.wait() / future.get(): blocks until the shared state is ready;
\* get() returns the value or rethrows the stored exception
FutureGet(w) ==
    /\ Awaiting(w)
    /\ FutureReady(Awaited(w))
    /\ LET F == Frame(w)
           k == Awaited(w)
           rest == [F EXCEPT !.todo = Tail(@),
                             !.kids = SubSeq(@, 1, Len(@) - 1)]
       IN  frame' = [frame EXCEPT ![w] =
              IF Head(F.todo).op = "get" /\ future[k][1] = "failure"
              THEN [rest EXCEPT !.pc = "raised"]
              ELSE IF Head(F.todo).op = "get"
                   THEN Settle([rest EXCEPT !.acc = @ + future[k][2]])
                   ELSE Settle(rest)]
    /\ UNCHANGED << ctorVars, poolVars, workerVars, callVars, taskVars, dtor,
                    scenario, plan >>
    /\ NestObserver

\* the body returns: the packaged task stores the value and makes the
\* shared state ready; the worker goes round its loop
BodyReturn(w) ==
    /\ wpc[w] = "exec"
    /\ Frame(w).pc = "run"
    /\ Frame(w).todo = << >>
    /\ body' = [body EXCEPT ![wtask[w]] = "returns"]
    /\ future' = [future EXCEPT ![wtask[w]] = << "value", Frame(w).acc >>]
    /\ wpc' = [wpc EXCEPT ![w] = "lock"]
    /\ wtask' = [wtask EXCEPT ![w] = NoTask]
    /\ frame' = [frame EXCEPT ![w] = NoFrame]
    /\ UNCHANGED << ctorVars, poolVars, callVars, execCount, dtor, scenario,
                    plan >>
    /\ NestObserver

\* an exception leaves the body: the packaged task stores it and makes the
\* shared state ready; the worker goes round its loop
BodyRaise(w) ==
    /\ wpc[w] = "exec"
    /\ frame[w].pc = "raised"
    /\ body' = [body EXCEPT ![wtask[w]] = "raises"]
    /\ future' = [future EXCEPT ![wtask[w]] =
                    PackagedTaskOutcome(wtask[w], "raises")]
    /\ wpc' = [wpc EXCEPT ![w] = IF Escapes(wtask[w], "raises")
                                  THEN "terminated" ELSE "lock"]
    /\ wtask' = [wtask EXCEPT ![w] = NoTask]
    /\ frame' = [frame EXCEPT ![w] = NoFrame]
    /\ UNCHANGED << ctorVars, poolVars, callVars, execCount, dtor, scenario,
                    plan >>
    /\ NestObserver

\* the thread that owns the pool: it blocks on the root handle before the
\* pool goes out of scope, except in the fire-and-forget test, which sleeps
MainDone == scenario = "fire" \/ FutureReady(1)

NestNext ==
    \/ \E w \in NestWorkers : WorkerLock(w)
    \/ \E w \in NestWorkers : WorkerWait(w)
    \/ \E w \in NestWorkers : WorkerSpuriousWake(w)
    \/ \E w \in NestWorkers : WorkerExit(w)
    \/ \E w \in NestWorkers : WorkerDequeue(w)
    \/ \E w \in NestWorkers : WorkerInvoke(w)
    \/ \E w \in NestWorkers : NestedSubmitLock(w)
    \/ \E w \in NestWorkers : NestedSubmitThrow(w)
    \/ \E w \in NestWorkers : NestedSubmitEnqueue(w)
    \/ \E w \in NestWorkers : NestedSubmitNotify(w)
    \/ \E w \in NestWorkers : FutureGet(w)
    \/ \E w \in NestWorkers : BodyReturn(w)
    \/ \E w \in NestWorkers : BodyRaise(w)
    \/ MainDone /\ DtorLock
    \/ DtorSetStop
    \/ DtorNotifyAll
    \/ DtorJoin

\* the pool constructed with its workers at the top of their loops, and the
\* root task submitted by the owner, its handle held
NestInit ==
    /\ scenario \in {"chain", "fire", "divide"}
    /\ numThreads \in IF scenario = "divide" THEN {DivideThreads}
                      ELSE 1 .. MaxThreads
    /\ plan \in { [t \in NestTasks |-> IF t = 1 THEN a ELSE NoArgs] :
                    a \in CASE scenario = "chain" ->
                                { << 0, 0, d >> : d \in 0 .. MaxThreads }
                            [] scenario = "fire" -> { << 0, 0, 1 >> }
                            [] scenario = "divide" ->
                                { << 0, DataSize, DivideDepth >> } }
    /\ frame = [w \in NestWorkers |-> NoFrame]
    /\ recording = FALSE
    /\ clients = 0
    /\ ctor = "done"
    /\ m_Workers = 1 .. numThreads
    /\ m_Tasks = << 1 >>
    /\ m_Mutex = NoThread
    /\ m_Condition = {}
    /\ m_Stop = FALSE
    /\ wpc = [w \in NestWorkers |->
                IF w <= numThreads THEN "lock" ELSE "unspawned"]
    /\ wtask = [w \in NestWorkers |-> NoTask]
    /\ cpc = [c \in Submitters |-> "idle"]
    /\ ctask = [c \in Submitters |-> NoTask]
    /\ nextTask = 2
    /\ body = [t \in NestTasks |-> "none"]
    /\ submitter = [t \in NestTasks |-> IF t = 1 THEN Owner ELSE NoThread]
    /\ result = [t \in NestTasks |-> IF t = 1 THEN "handle" ELSE "none"]
    /\ future = [t \in NestTasks |-> IF t = 1 THEN Pending ELSE NoFuture]
    /\ execCount = [t \in NestTasks |-> 0]
    /\ dtor = "none"
    /\ enqueueOrder = << >>
    /\ dequeueOrder = << >>
    /\ startOrder = << >>
    /\ completeOrder = << >>
    /\ batchLen = 0
    /\ MasterIdle
    /\ CacheIdle /\ multiplier = 1
    /\ StopwatchIdle
    /\ ChecksumIdle

NestSpec == NestInit /\ [][NestNext]_vars

\* every worker is scheduled, inside the bodies too (these bodies only call
\* the pool and wait on handles), and a worker that can take a step again
\* and again takes it: it gets the mutex that the others keep releasing
NestStep(w) ==
    \/ LoopStep(w)
    \/ NestedSubmitLock(w) \/ NestedSubmitThrow(w)
    \/ NestedSubmitEnqueue(w) \/ NestedSubmitNotify(w)
    \/ FutureGet(w) \/ BodyReturn(w) \/ BodyRaise(w)

NestFairSpec ==
    /\ NestInit
    /\ [][NestNext]_vars
    /\ \A w \in NestWorkers : SF_vars(NestStep(w))
    /\ WF_vars(DtorSetStop \/ DtorNotifyAll \/ DtorJoin)

\* -------------------------------------------------------------- Checksum
\* the three functions are called on the same input
Checksum ==
    /\ checksums = NoChecksums
    /\ checksums' =
          [crc32c |-> Crc32C(input.hardware, input.data, input.crc),
           software |-> SoftwareCrc32C(input.data, input.crc),
           sliced |-> SlicedSoftwareCrc32C(SliceCount, input.data, input.crc)]
    /\ UNCHANGED input
    /\ UNCHANGED << threadPoolVars, cacheVars, stopwatchVars, nestVars >>

ChecksumNext == Checksum

\* no pool; any of the inputs, in a build with or without SSE4.2
ChecksumInit ==
    /\ Fresh(FALSE, NumSubmitters)
    /\ numThreads = 0
    /\ ctor = "none"
    /\ MasterIdle
    /\ CacheIdle /\ multiplier = 1
    /\ StopwatchIdle
    /\ NestIdle
    /\ input \in { [data |-> Bytes(seed, n), crc |-> c, hardware |-> h] :
                     seed \in 0 .. MaxSeed, n \in Lengths,
                     c \in {AllOnes, ZeroWord, Castagnoli}, h \in BOOLEAN }
    /\ checksums = NoChecksums

ChecksumSpec == ChecksumInit /\ [][ChecksumNext]_vars

\* ------------------------------------------------------------- Stopwatch
\* what an operation found: the state before it and the reading of the clock
Found(name) ==
    [op |-> name, wasRunning |-> m_IsRunning, elapsed |-> m_Elapsed,
     start |-> m_StartTimestamp, at |-> now, session |-> 0]

Start_Always ==
    /\ m_IsRunning \/ sessions.count < MaxSessions
    /\ m_StartTimestamp' = now
    /\ m_IsRunning' = TRUE
    /\ sessionStart' = IF m_IsRunning THEN sessionStart ELSE now
    /\ sessions' = IF m_IsRunning THEN sessions
                   ELSE [sessions EXCEPT !.count = @ + 1]
    /\ swLast' = Found("Start")
    /\ UNCHANGED << clockKind, now, m_Elapsed >>
    /\ UNCHANGED << threadPoolVars, cacheVars, nestVars, checksumVars >>

\* void Start(): if (!m_IsRunning) { ResetStartTimestamp(); m_IsRunning = true; }
Start ==
    /\ IF ~m_IsRunning
       THEN /\ sessions.count < MaxSessions
            /\ m_StartTimestamp' = now
            /\ m_IsRunning' = TRUE
            /\ sessionStart' = now
            /\ sessions' = [sessions EXCEPT !.count = @ + 1]
       ELSE UNCHANGED << m_StartTimestamp, m_IsRunning, sessionStart,
                         sessions >>
    /\ swLast' = Found("Start")
    /\ UNCHANGED << clockKind, now, m_Elapsed >>
    /\ UNCHANGED << threadPoolVars, cacheVars, nestVars, checksumVars >>

\* void Stop(): if (m_IsRunning) { m_Elapsed += raw; m_IsRunning = false;
\* if (m_Elapsed < 0) m_Elapsed = 0; }
Stop ==
    /\ IF m_IsRunning
       THEN /\ m_Elapsed' = AfterStop(m_Elapsed,
                               RawElapsed(clockKind, m_StartTimestamp, now))
            /\ m_IsRunning' = FALSE
            /\ LET d == RawElapsed(clockKind, sessionStart, now)
               IN  /\ sessions' = [sessions EXCEPT
                                     !.sum = @ + d,
                                     !.negative = @ \/ d < 0]
                   /\ swLast' = [Found("Stop") EXCEPT !.session = d]
       ELSE /\ UNCHANGED << m_Elapsed, m_IsRunning, sessions >>
            /\ swLast' = Found("Stop")
    /\ UNCHANGED << clockKind, now, m_StartTimestamp, sessionStart >>
    /\ UNCHANGED << threadPoolVars, cacheVars, nestVars, checksumVars >>

\* void Reset(): m_Elapsed = 0; m_IsRunning = false;
Reset ==
    /\ m_Elapsed' = 0
    /\ m_IsRunning' = FALSE
    /\ sessions' = NoSessions
    /\ swLast' = Found("Reset")
    /\ UNCHANGED << clockKind, now, m_StartTimestamp, sessionStart >>
    /\ UNCHANGED << threadPoolVars, cacheVars, nestVars, checksumVars >>

\* void Restart(): m_Elapsed = 0; ResetStartTimestamp(); m_IsRunning = true;
Restart ==
    /\ m_Elapsed' = 0
    /\ m_StartTimestamp' = now
    /\ m_IsRunning' = TRUE
    /\ sessionStart' = now
    /\ sessions' = [NoSessions EXCEPT !.count = 1]
    /\ swLast' = Found("Restart")
    /\ UNCHANGED << clockKind, now >>
    /\ UNCHANGED << threadPoolVars, cacheVars, nestVars, checksumVars >>

\* time passes: the next reading of the clock is later
ClockAdvances ==
    /\ now < MaxClock
    /\ now' = now + 1
    /\ UNCHANGED << clockKind, m_Elapsed, m_IsRunning, m_StartTimestamp,
                    sessionStart, sessions, swLast >>
    /\ UNCHANGED << threadPoolVars, cacheVars, nestVars, checksumVars >>

\* std::chrono::high_resolution_clock need not be steady (it may be the
\* system clock, which can be set back), and std::clock() wraps around: the
\* next reading is earlier than the last one
ClockStepsBack ==
    /\ \E t \in 0 .. (now - 1) : now' = t
    /\ UNCHANGED << clockKind, m_Elapsed, m_IsRunning, m_StartTimestamp,
                    sessionStart, sessions, swLast >>
    /\ UNCHANGED << threadPoolVars, cacheVars, nestVars, checksumVars >>

\* any sequence of operations on one stopwatch of either class, with the
\* clock moving in between
StopwatchNext ==
    \/ Start
    \/ Stop
    \/ Reset
    \/ Restart
    \/ ClockAdvances
    \/ ClockStepsBack

\* no pool; a stopwatch just constructed
StopwatchInit ==
    /\ Fresh(FALSE, NumSubmitters)
    /\ numThreads = 0
    /\ ctor = "none"
    /\ MasterIdle
    /\ CacheIdle /\ multiplier = 1
    /\ clockKind \in ClockKinds
    /\ now \in 0 .. MaxClock
    /\ m_Elapsed = 0
    /\ m_IsRunning = FALSE
    /\ m_StartTimestamp = 0
    /\ sessionStart = 0
    /\ sessions = NoSessions
    /\ swLast = NoSwOp
    /\ NestIdle
    /\ ChecksumIdle

StopwatchSpec == StopwatchInit /\ [][StopwatchNext]_vars

\* ----------------------------------------------------------- claim helpers
Range(s) == { s[i] : i \in 1 .. Len(s) }

Occurrences(s, x) == Cardinality({ i \in 1 .. Len(s) : s[i] = x })

IsPrefix(s, r) == Len(s) <= Len(r) /\ \A i \in 1 .. Len(s) : s[i] = r[i]

\* position of the first occurrence of x in s (0 when absent)
Pos(s, x) ==
    IF x \in Range(s) THEN CHOOSE i \in 1 .. Len(s) :
                              s[i] = x /\ \A j \in 1 .. (i - 1) : s[j] # x
                      ELSE 0

\* Submit put the task in the queue
Accepted(t) == result[t] \in {"enqueued", "handle"}
Ready(t) == future[t][1] \in {"value", "failure"}
Started(t) == execCount[t] >= 1
Running == { t \in TaskIds : Started(t) /\ ~Ready(t) }
Holders(t) ==
    { w \in Workers : wtask[w] = t /\ wpc[w] \in {"dequeued", "exec"} }

\* what the handle of task t has to deliver, given what its callable did
OwnOutcome(t) ==
    CASE body[t] = "returns" -> << "value", 2 * t >>
      [] body[t] = "raises" -> << "failure", t >>
      [] OTHER -> Pending

RECURSIVE SumExec(_)
SumExec(S) ==
    IF S = {} THEN 0
    ELSE LET t == CHOOSE x \in S : TRUE IN execCount[t] + SumExec(S \ {t})

\* ------------------------------------------------------------------ claims

\* C1: when the destructor returns, every task that was accepted (its Submit
\* enqueued it, in particular every task whose Submit returned a handle) has
\* run to completion exactly once, and the queue is empty.
C1_DestructorDrains ==
    dtor = "returned" =>
        /\ m_Tasks = << >>
        /\ \A t \in TaskIds :
            Accepted(t) =>
                /\ execCount[t] = 1
                /\ Ready(t)
                /\ Holders(t) = {}

C1_Witness ==
    /\ dtor = "returned"
    /\ Cardinality({ t \in TaskIds : result[t] = "handle" }) >= 2
    /\ \A t \in TaskIds : result[t] = "handle" => execCount[t] = 1

\* C2: a Submit that reaches its check with the shutdown flag set throws to
\* its caller: the queue is left unchanged, no handle is returned and the
\* task is never executed; the flag, once set, stays set.
C2_RejectStep ==
    \A c \in Submitters :
        (cpc[c] = "locked" /\ m_Stop /\ Alive /\ cpc'[c] # "locked") =>
            /\ result'[ctask[c]] = "threw"
            /\ m_Tasks' = m_Tasks

C2_Rejected ==
    \A t \in TaskIds :
        result[t] = "threw" =>
            /\ t \notin Range(m_Tasks)
            /\ Holders(t) = {}
            /\ execCount[t] = 0
            /\ future[t] = NoFuture

C2_SubmitAfterStopThrows ==
    /\ [][C2_RejectStep /\ (m_Stop => m_Stop')]_vars
    /\ []C2_Rejected

C2_Witness ==
    \E t \in TaskIds : result[t] = "threw" /\ dtor = "returned"

\* C3: failure isolation: a handle that is ready holds the outcome of its own
\* task (its own failure if the body raised, its own value if it returned),
\* and after the destructor every accepted task has its own outcome whatever
\* the other tasks did.
C3_FailureIsolation ==
    \A t \in TaskIds :
        /\ future[t] \in {NoFuture, Pending, OwnOutcome(t)}
        /\ Ready(t) <=> body[t] \in BodyKinds
        /\ (dtor = "returned" /\ Accepted(t)) =>
                (Ready(t) /\ future[t] = OwnOutcome(t))

C3_Witness ==
    \E t, u \in TaskIds :
        /\ t < u
        /\ body[t] = "raises" /\ body[u] = "returns"
        /\ future[t] = << "failure", t >>
        /\ future[u] = << "value", 2 * u >>

\* C4: under fair scheduling every task whose Submit returned a handle
\* eventually has exactly one outcome (a value or a failure) in its handle,
\* and a ready handle never changes, so repeated reads agree.  A returned
\* handle stays returned and a ready one stays ready, so "each returned handle
\* is eventually ready" is "again and again every returned handle is ready".
C4_ReadyStable ==
    \A t \in TaskIds :
        /\ Ready(t) => future'[t] = future[t]
        /\ result[t] = "handle" => result'[t] = "handle"

C4_EventuallyOneOutcome ==
    /\ []<>(\A t \in TaskIds : result[t] = "handle" => Ready(t))
    /\ [][C4_ReadyStable]_vars

C4_Witness ==
    \E t \in TaskIds : result[t] = "handle" /\ Ready(t) /\ dtor = "none"

\* the tasks one submitter enqueued before anything was dequeued
Batch(s) ==
    { t \in TaskIds : /\ submitter[t] = s
                      /\ Pos(enqueueOrder, t) \in 1 .. batchLen }

\* C5 (as stated): for tasks i before j of one submitter's batch, the body of
\* i begins executing before the body of j begins.
C5_BodiesStartInOrder ==
    \A s \in Submitters : \A i, j \in Batch(s) :
        (Pos(enqueueOrder, i) < Pos(enqueueOrder, j)
            /\ j \in Range(startOrder)) =>
            (i \in Range(startOrder)
                /\ Pos(startOrder, i) < Pos(startOrder, j))

\* C5 (amended): tasks leave the queue in the order they entered it, for any
\* worker count: for i before j, task i is dequeued before task j.
C5_DequeueInOrder ==
    /\ IsPrefix(dequeueOrder, enqueueOrder)
    /\ \A s \in Submitters : \A i, j \in Batch(s) :
        (Pos(enqueueOrder, i) < Pos(enqueueOrder, j)
            /\ j \in Range(dequeueOrder)) =>
            (i \in Range(dequeueOrder)
                /\ Pos(dequeueOrder, i) < Pos(dequeueOrder, j))

C5_Witness ==
    \E s \in Submitters :
        /\ Cardinality(Batch(s)) >= 2
        /\ Batch(s) \subseteq Range(dequeueOrder)
        /\ ThreadCount >= 2

\* C6: with exactly one worker, bodies run one at a time, begin and complete
\* in the order the tasks were submitted, and all of them have completed
\* when the destructor returns.
C6_SingleWorkerSequential ==
    (ctor = "done" /\ ThreadCount = 1) =>
        /\ Cardinality(Running) <= 1
        /\ IsPrefix(startOrder, enqueueOrder)
        /\ IsPrefix(completeOrder, enqueueOrder)
        /\ Len(startOrder) <= Len(completeOrder) + 1
        /\ \A i, j \in TaskIds :
            (submitter[i] = submitter[j] /\ i < j /\ Accepted(i)
                /\ j \in Range(completeOrder)) =>
                    Pos(completeOrder, i) \in 1 .. (Pos(completeOrder, j) - 1)
        /\ dtor = "returned" => completeOrder = enqueueOrder

C6_Witness ==
    /\ ctor = "done" /\ ThreadCount = 1
    /\ dtor = "returned"
    /\ Len(completeOrder) >= 2
    /\ completeOrder = enqueueOrder

\* C7: the number of task bodies executing at the same time never exceeds
\* ThreadCount().
C7_BoundedParallelism ==
    ctor = "done" => Cardinality(Running) <= ThreadCount

C7_Witness ==
    /\ ctor = "done"
    /\ Cardinality(Running) = ThreadCount
    /\ m_Tasks # << >>

\* C8: every accepted task is in exactly one condition: queued (once), held
\* by exactly one worker, or completed; it is invoked at most once and a task
\* that was not accepted is in none of them.
C8_AtMostOnceDispatch ==
    \A t \in TaskIds :
        /\ Accepted(t) =>
            Cardinality({ k \in {"queued", "held", "completed"} :
                \/ k = "queued" /\ t \in Range(m_Tasks)
                \/ k = "held" /\ Holders(t) # {}
                \/ k = "completed" /\ Ready(t) }) = 1
        /\ Occurrences(m_Tasks, t) <= 1
        /\ Cardinality(Holders(t)) <= 1
        /\ execCount[t] <= 1
        /\ \A w \in Workers : wpc[w] = "exec" /\ wtask[w] = t => execCount[t] = 1

C8_Witness ==
    \E w, v \in Workers :
        /\ w # v
        /\ wpc[w] = "exec" /\ wpc[v] = "exec"
        /\ wtask[w] # wtask[v]

\* C9: with clients racing each other and the workers, the accepted
\* submissions are conserved: each is in the queue, with a worker or
\* completed, so that their total is the number of accepted submissions;
\* nothing runs that was not accepted, and once the pool is quiescent or
\* destroyed the number of executions equals the number of accepted
\* submissions.
Quiescent ==
    /\ m_Tasks = << >>
    /\ \A w \in Workers : wpc[w] \in {"unspawned", "waiting", "terminated"}
    /\ \A c \in Submitters : cpc[c] = "idle"

NumAccepted == Cardinality({ t \in TaskIds : Accepted(t) })

C9_NoLossNoDuplication ==
    /\ Len(m_Tasks)
         + Cardinality({ w \in Workers : wpc[w] \in {"dequeued", "exec"} })
         + Cardinality({ t \in TaskIds : Ready(t) }) = NumAccepted
    /\ \A t \in TaskIds : ~Accepted(t) => execCount[t] = 0
    /\ SumExec(TaskIds) <= NumAccepted
    /\ (Quiescent \/ dtor = "returned") => SumExec(TaskIds) = NumAccepted

C9_Witness ==
    /\ Quiescent
    /\ dtor = "none"
    /\ \E t, u \in TaskIds :
        /\ submitter[t] # submitter[u]
        /\ result[t] = "handle" /\ result[u] = "handle"
        /\ execCount[t] = 1 /\ execCount[u] = 1

\* C10: a worker terminates only in a step it takes holding the lock with the
\* shutdown flag set and the queue empty; so whenever some worker has
\* terminated, the flag is set and the queue is empty.
C10_ExitStep ==
    \A w \in Workers :
        (wpc[w] # "terminated" /\ wpc'[w] = "terminated") =>
            (m_Mutex = w /\ m_Stop /\ m_Tasks = << >>)

C10_Drained ==
    (\E w \in Workers : wpc[w] = "terminated") => (m_Stop /\ m_Tasks = << >>)

C10_DrainBeforeExit ==
    /\ [][C10_ExitStep]_vars
    /\ []C10_Drained

C10_Witness ==
    \E w, v \in Workers :
        /\ wpc[w] = "terminated"
        /\ wpc[v] = "exec"

\* C11: a task whose body raises does not end the worker that ran it: the
\* worker leaves the call of the task only to go round its loop again, and
\* as long as the shutdown flag is not set no spawned worker has terminated,
\* so the workers alive are as many as ThreadCount().
C11_LoopStep ==
    \A w \in Workers :
        (wpc[w] = "exec" /\ wpc'[w] # "exec") =>
            (wpc'[w] = "lock" /\ wtask'[w] = NoTask)

C11_AllWorkersLive ==
    ~m_Stop =>
        /\ \A w \in m_Workers : wpc[w] # "terminated"
        /\ Cardinality({ w \in Workers :
                wpc[w] \notin {"unspawned", "terminated"} }) = ThreadCount

C11_FailureKeepsWorker ==
    /\ [][C11_LoopStep]_vars
    /\ []C11_AllWorkersLive

C11_Witness ==
    /\ ctor = "done" /\ ThreadCount = 1 /\ ~m_Stop
    /\ \E t, u \in TaskIds : \E w \in Workers :
        /\ body[t] = "raises"
        /\ wpc[w] = "exec" /\ wtask[w] = u

\* C12: under fair scheduling, once the destructor has set the shutdown flag
\* every worker terminates and the destructor returns; and the destructor
\* has returned only when every spawned worker has terminated.
C12_JoinedAll ==
    dtor = "returned" => \A w \in m_Workers : wpc[w] = "terminated"

C12_ShutdownCompletes ==
    /\ m_Stop ~> (dtor = "returned")
    /\ []C12_JoinedAll

C12_Witness ==
    /\ dtor = "returned"
    /\ ThreadCount >= 2
    /\ \A w \in m_Workers : wpc[w] = "terminated"
    /\ \E t \in TaskIds : Ready(t)

\* C13: once constructed, the pool has max(t, 1) workers for the requested
\* count t (one worker when 0 is requested), ThreadCount() returns that
\* number, and no later step changes it.
C13_Count ==
    ctor = "done" =>
        /\ ThreadCount = (IF numThreads = 0 THEN 1 ELSE numThreads)
        /\ Cardinality({ w \in Workers : wpc[w] # "unspawned" }) = ThreadCount

C13_CountKept ==
    ctor = "done" => (m_Workers' = m_Workers /\ numThreads' = numThreads)

C13_ThreadCountIsMax ==
    /\ []C13_Count
    /\ [][C13_CountKept]_vars

C13_Witness ==
    /\ ctor = "done" /\ numThreads = 0 /\ ThreadCount = 1
    /\ \E t \in TaskIds : body[t] = "raises" /\ result[t] = "handle"

\* C14: a handle that holds a value holds the value of its own callable and
\* arguments, f(i) = 2 * i for task i, whichever worker ran the task and in
\* whatever order the tasks completed; a task that returned has its value in
\* its handle.
C14_OwnResult ==
    \A t \in TaskIds :
        /\ future[t][1] = "value" => future[t][2] = 2 * t
        /\ body[t] = "returns" => future[t] = << "value", 2 * t >>

C14_Witness ==
    /\ Len(completeOrder) >= 2
    /\ completeOrder # enqueueOrder
    /\ \A t \in Range(completeOrder) :
        result[t] = "handle" /\ future[t] = << "value", 2 * t >>

\* C15 (as stated): when construction has failed, the failure was reported to
\* the caller and every worker that had been started has been stopped and
\* joined.
C15_FailedConstructionTearsDown ==
    ctor \notin {"running", "done"} =>
        /\ ctor = "threw"
        /\ \A w \in m_Workers : wpc[w] = "terminated"

\* C16: every MasterThreadPool() call returns the same, fully constructed
\* pool; only one pool is ever constructed; and that pool is never shut
\* down, so no Submit on it throws the stopped-pool error.
C16_OneMasterPool ==
    /\ constructions <= 1
    /\ \A c, d \in Submitters :
        (got[c] # 0 /\ got[d] # 0) => got[c] = got[d]
    /\ \A c \in Submitters : got[c] # 0 => (got[c] = instance /\ ctor = "done")
    /\ ~m_Stop /\ dtor = "none"
    /\ \A c \in Submitters : cpc[c] = "locked" => ~SubmitRejects
    /\ \A t \in TaskIds : result[t] # "threw"

C16_Witness ==
    \E c, d \in Submitters : \E t, u \in TaskIds :
        /\ c # d
        /\ got[c] # 0 /\ got[d] = got[c]
        /\ submitter[t] = c /\ submitter[u] = d
        /\ result[t] = "handle" /\ result[u] = "handle"
        /\ Ready(t) /\ Ready(u)

\* the entries of the map for one argument tuple
Entries(a) == { e \in m_Cache : e[1] = a }

\* C17: since construction or the last Clear(), the wrapped function has
\* computed a value at most once per argument tuple (at most once in all for
\* the zero-argument form) and the cache holds exactly that value; a call
\* with an argument already computed does not invoke the function and
\* returns that first value, whatever the function would return now.
C17_Once ==
    /\ \A a \in Args :
        /\ Len(computed[a]) <= 1
        /\ Entries(a) = IF computed[a] = << >> THEN {}
                        ELSE { << a, computed[a][1] >> }
    /\ Len(computed0) <= 1
    /\ m_Cache0 = computed0

C17_HitStep ==
    /\ (last'.op = "call" /\ computed[last'.arg] # << >>) =>
        /\ ~last'.ran
        /\ globalCallCount' = globalCallCount
        /\ last'.outcome = "value"
        /\ last'.value = computed[last'.arg][1]
    /\ (last'.op = "call0" /\ computed0 # << >>) =>
        /\ ~last'.ran
        /\ globalCallCount' = globalCallCount
        /\ last'.value = computed0[1]

C18_ThrowStep ==
    (last'.op = "call" /\ last'.outcome = "threw") =>
        /\ last'.ran
        /\ globalCallCount' = globalCallCount + 1
        /\ m_Cache' = m_Cache
        /\ Cardinality(m_Cache') = Cardinality(m_Cache)
        /\ \A e \in m_Cache' : e[1] # last'.arg

C18_RetryStep ==
    (last.op = "call" /\ last.outcome = "threw"
        /\ last'.op = "call" /\ last'.arg = last.arg) =>
        (last'.ran /\ globalCallCount' = globalCallCount + 1)

C18_ThrowCachesNothing == [][C18_ThrowStep /\ C18_RetryStep]_vars

C18_Witness ==
    /\ last.op = "call" /\ last.outcome = "threw" /\ last.arg = -1
    /\ globalCallCount = 3
    /\ Cardinality(m_Cache) = 1
    /\ m_Cache0 = << >> /\ computed0 = << >>

\* C19: a const call never invokes the wrapped function and never changes
\* the cache: it returns the cached value when the argument is cached and
\* throws std::out_of_range when it is not; Size() is the same after it.
C19_ConstStep ==
    /\ last'.op = "constcall" =>
        /\ ~last'.ran
        /\ globalCallCount' = globalCallCount
        /\ m_Cache' = m_Cache
        /\ Cardinality(m_Cache') = Cardinality(m_Cache)
        /\ IF \E e \in m_Cache : e[1] = last'.arg
           THEN /\ last'.outcome = "value"
                /\ << last'.arg, last'.value >> \in m_Cache
           ELSE last'.outcome = "out_of_range"
    /\ last'.op = "constcall0" =>
        /\ ~last'.ran
        /\ globalCallCount' = globalCallCount
        /\ m_Cache0' = m_Cache0
        /\ IF m_Cache0 # << >>
           THEN last'.outcome = "value" /\ last'.value = m_Cache0[1]
           ELSE last'.outcome = "out_of_range"

C19_ConstCallOnlyLooksUp == [][C19_ConstStep]_vars

C19_Witness ==
    /\ last.op = "constcall" /\ last.outcome = "out_of_range"
    /\ m_Cache # {}
    /\ globalCallCount = 1

\* C20: Size() is the number of distinct argument tuples computed since the
\* last Clear(): 0 at first, one more after a call that computes a new
\* argument, the same after a hit, 0 after Clear() (also of an empty cache);
\* and a call right after Clear() invokes the function again.
C20_Size ==
    /\ Size = Cardinality({ a \in Args : computed[a] # << >> })
    /\ Size0 = Len(computed0)
    /\ last.op = "none" => (Size = 0 /\ Size0 = 0)
    /\ last.op = "size" => last.value = Size
    /\ last.op = "size0" => last.value = Size0
    /\ last.op = "clear" => Size = 0
    /\ last.op = "clear0" => Size0 = 0

C20_Step ==
    /\ (last'.op = "call" /\ last'.outcome = "value") =>
        Cardinality(m_Cache') =
            Cardinality(m_Cache) + (IF last'.ran THEN 1 ELSE 0)
    /\ (last'.op = "call" /\ last'.outcome = "value") =>
        (last'.ran <=> computed[last'.arg] = << >>)
    /\ (last.op = "clear" /\ last'.op = "call") => last'.ran
    /\ (last.op = "clear0" /\ last'.op = "call0") => last'.ran

C20_SizeCountsComputed ==
    /\ []C20_Size
    /\ [][C20_Step]_vars

C20_Witness ==
    /\ last.op = "call" /\ last.ran /\ last.outcome = "value"
    /\ Size = 1
    /\ globalCallCount = 3
    /\ computed0 = << >> /\ m_Cache0 = << >>
    /\ m_Cache = { << 1, 2 >> }

\* ---------------------------------------------------------------- C21
\* C21: over any sequence of Start/Stop/Reset/Restart, IsRunning() is false
\* initially, true after Start() or Restart() and false after Stop() or
\* Reset(); Start() on a running stopwatch and Stop() on a stopped one change
\* neither the running flag, the accumulated elapsed time nor the start
\* timestamp.
C21_Flag ==
    /\ swLast.op = "none" => ~IsRunning
    /\ swLast.op \in {"Start", "Restart"} => IsRunning
    /\ swLast.op \in {"Stop", "Reset"} => ~IsRunning

C21_NoOp ==
    \/ swLast.op = "Start" /\ swLast.wasRunning
    \/ swLast.op = "Stop" /\ ~swLast.wasRunning

C21_RunningState ==
    /\ C21_Flag
    /\ C21_NoOp =>
        /\ m_IsRunning = swLast.wasRunning
        /\ m_Elapsed = swLast.elapsed
        /\ m_StartTimestamp = swLast.start

\* Start() was called on a stopwatch that had been running for a while
C21_Witness ==
    /\ swLast.op = "Start"
    /\ swLast.wasRunning
    /\ swLast.at > m_StartTimestamp

\* ---------------------------------------------------------------- C22
C22_NeverNegative == ~m_IsRunning => ElapsedTicks >= 0

C22_TimePasses == now' # now /\ ~m_IsRunning => ElapsedTicks' = ElapsedTicks

C22_Zero == swLast.op \in {"none", "Reset"} => ElapsedTicks = 0

C22_Restarted ==
    swLast.op = "Restart" =>
        /\ m_IsRunning
        /\ ElapsedTicks = RawElapsed(clockKind, swLast.at, now)

C22_TotalIsSum == ~m_IsRunning => m_Elapsed = sessions.sum

C22_StopAdds ==
    /\ swLast.op = "Stop" /\ swLast.wasRunning =>
        m_Elapsed = Max(swLast.elapsed + swLast.session, 0)
    /\ ~m_IsRunning /\ ~sessions.negative => m_Elapsed = sessions.sum

\* C22 as stated: while the stopwatch is stopped ElapsedTicks() is constant
\* however much time passes and is never negative; it is 0 initially and
\* after Reset(); each Stop() adds the time since the matching Start(), so
\* after several Start/Stop cycles the total equals the sum of the session
\* durations; Restart() zeroes the total and begins a new running session.
C22_ElapsedIsSumOfSessions ==
    /\ [](C22_NeverNegative /\ C22_Zero /\ C22_Restarted /\ C22_TotalIsSum)
    /\ [][C22_TimePasses]_vars

\* C22, amended: as above, except that each Stop() adds the time the clock
\* measured since the matching Start() and replaces a negative total by 0,
\* so the total equals the sum of the session durations when no session
\* measured negative.
C22_ElapsedAccounting ==
    /\ [](C22_NeverNegative /\ C22_Zero /\ C22_Restarted /\ C22_StopAdds)
    /\ [][C22_TimePasses]_vars

\* the second Stop() added a session to a total that was not zero
C22_Witness ==
    /\ swLast.op = "Stop"
    /\ swLast.wasRunning
    /\ sessions.count = 2
    /\ swLast.elapsed > 0
    /\ swLast.session > 0
    /\ m_Elapsed = swLast.elapsed + swLast.session

\* ---------------------------------------------------------------- C23
\* a worker at the top of its loop: about to lock, holding the lock before
\* the wait, or blocked in the wait
IdleWorkers == { w \in Workers : wpc[w] \in {"lock", "locked", "waiting"} }

C23_Starved == m_Tasks # << >> /\ IdleWorkers # {}

\* C23: whenever the queue is non-empty and some worker is not executing a
\* task, a task is eventually dequeued: no behaviour stays for ever in states
\* with a pending task and a worker that is not executing (the queue only
\* shrinks by a dequeue, and such a worker only leaves its loop top by one).
C23_NoLostWakeup == []<>(~C23_Starved)

\* a task is queued while one worker is blocked in the wait and the other
\* worker is inside a body
C23_Witness ==
    /\ m_Tasks # << >>
    /\ \E w \in Workers : w \in m_Condition /\ wpc[w] = "waiting"
    /\ \E w \in Workers : wpc[w] = "exec"

\* ---------------------------------------------------------------- C24
\* C24: a worker that is executing a task body does not hold m_Mutex (so
\* Submit calls and dequeues by other workers go on while bodies run, however
\* long they run).
C24_BodiesRunUnlocked ==
    \A w \in Workers : wpc[w] \in {"dequeued", "exec"} => m_Mutex # w

\* while every worker is inside a body, a client is inside Submit holding
\* the lock
C24_Witness ==
    /\ m_Workers # {}
    /\ \A w \in m_Workers : wpc[w] = "exec"
    /\ \E c \in Submitters : m_Mutex = c /\ cpc[c] = "locked"

\* ---------------------------------------------------------------- C25
\* some client is inside a Submit call on a pool that exists
C25_InSubmit ==
    Alive /\ \E c \in Submitters : cpc[c] \in {"locked", "notify"}

\* what is left of a Submit call can be done at once, whatever the workers
\* are doing and however many tasks are queued
C25_CanGoOn ==
    \A c \in Submitters :
        /\ Alive /\ cpc[c] = "locked" =>
              ENABLED (SubmitEnqueue(c) \/ SubmitThrow(c))
        /\ Alive /\ cpc[c] = "notify" => ENABLED SubmitNotify(c)

\* C25: a submitter never suspends on Submit: once it has the lock it returns
\* a handle (or throws) without waiting for a worker to become idle, for a
\* task to finish or for queue space, also when every worker is inside a
\* body that never ends and tasks are pending.
C25_SubmitNeverBlocks ==
    /\ []C25_CanGoOn
    /\ []<>(~C25_InSubmit)

\* Submit returned a handle for a task that is still queued while every
\* worker is inside a body
C25_Witness ==
    /\ m_Workers # {}
    /\ \A w \in m_Workers : wpc[w] = "exec"
    /\ \E t \in TaskIds : result[t] = "handle" /\ m_Tasks = << t >>
    /\ \A c \in Submitters : cpc[c] = "idle"

\* ---------------------------------------------------------------- C26
\* the shared state of task t changes only by being created pending, by
\* being destroyed with the packaged task when Submit throws, or by the
\* worker that is executing t making it ready
C26_Write(t) ==
    future'[t] # future[t] =>
        \/ future[t] = NoFuture /\ future'[t] = Pending
        \/ future[t] = Pending /\ future'[t] = NoFuture /\ result'[t] = "threw"
        \/ /\ future[t] = Pending
           /\ future'[t][1] \in {"value", "failure"}
           /\ \E w \in Workers :
                wpc[w] = "exec" /\ wtask[w] = t /\ wpc'[w] # "exec"

\* a handle is not ready while its task is queued or being executed, and the
\* task was executed once
C26_ReadyAfterBody ==
    \A t \in TaskIds :
        Ready(t) => /\ t \notin Range(m_Tasks)
                    /\ Holders(t) = {}
                    /\ execCount[t] = 1

C26_Final == \A t \in TaskIds : Ready(t) => future'[t] = future[t]

\* C26: the outcome of a Result Handle changes exactly once, from pending to
\* a value or a failure, written by the worker that executed its task; the
\* handle is never ready while its task is queued or executing, and a ready
\* outcome never changes.
C26_WrittenOnce ==
    /\ []C26_ReadyAfterBody
    /\ [][(\A t \in TaskIds : C26_Write(t)) /\ C26_Final]_vars

\* one handle holds a value and another a failure, both tasks done
C26_Witness ==
    /\ \E t \in TaskIds : future[t][1] = "value"
    /\ \E t \in TaskIds : future[t][1] = "failure"
    /\ m_Tasks = << >>
    /\ \A w \in Workers : wtask[w] = NoTask

\* ---------------------------------------------------------------- C27
\* the chain is longer than the pool has workers
C27_LongChain == scenario = "chain" /\ plan[1][3] >= numThreads

\* every worker is inside a body, blocked on the handle of a task that has
\* not run to its end, and the last task of the chain is still queued
C27_Deadlocked ==
    /\ scenario = "chain"
    /\ m_Tasks # << >>
    /\ \A w \in m_Workers :
        /\ Awaiting(w)
        /\ ~FutureReady(Awaited(w))
        /\ \/ Awaited(w) \in Range(m_Tasks)
           \/ \E v \in m_Workers : wtask[v] = Awaited(w)

C28_DivideDelivers ==
    <>[](scenario = "divide" => future[1] = << "value", 500500 >>)

\* the root handle is ready with the sum and the three child tasks ran
C28_Witness ==
    /\ scenario = "divide"
    /\ numThreads = 4
    /\ future[1] = << "value", 500500 >>
    /\ \A t \in 1 .. 4 : execCount[t] = 1 /\ future[t][1] = "value"

\* ---------------------------------------------------------------- C29
\* a Submit call from inside a body that finds m_Stop set throws: nothing is
\* enqueued
C29_Throws ==
    \A w \in NestWorkers :
        frame[w].pc = "locked" /\ m_Stop /\ frame'[w] # frame[w] =>
            /\ frame'[w].pc = "raised"
            /\ result'[frame[w].child] = "threw"
            /\ m_Tasks' = m_Tasks

\* the exception becomes the failure of the enclosing task's handle and the
\* worker goes back to its loop
C29_Captured ==
    \A w \in NestWorkers :
        frame[w].pc = "raised" /\ frame'[w] # frame[w] =>
            /\ future'[wtask[w]][1] = "failure"
            /\ wpc'[w] = "lock"

\* a child whose Submit threw is never queued or run, and a worker only
\* returns from its loop with the queue empty
C29_Drains ==
    /\ \A t \in NestTasks :
        result[t] = "threw" => /\ t \notin Range(m_Tasks)
                               /\ execCount[t] = 0
                               /\ future[t] = NoFuture
    /\ (\E w \in m_Workers : wpc[w] = "terminated") => m_Tasks = << >>

\* the destructor has begun and has not returned
C29_ShuttingDown == dtor \in {"locked", "notify", "join"}

\* C29: a Submit call made from inside a running task after shutdown has
\* begun raises the stopped-pool error inside that task; the child is not
\* enqueued, the error is captured as the failure of the enclosing task's
\* handle, and the worker keeps draining the queue and then terminates (so
\* the destructor returns).
C29_NestedSubmitAfterStop ==
    /\ [][C29_Throws /\ C29_Captured]_vars
    /\ []C29_Drains
    /\ []<>(~C29_ShuttingDown)

\* the root's second Submit threw: one child ran, the other never existed,
\* the root handle holds the failure and the pool is gone
C29_Witness ==
    /\ scenario = "fire"
    /\ future[1][1] = "failure"
    /\ \E t \in NestTasks : result[t] = "threw"
    /\ \E t \in NestTasks : t # 1 /\ future[t][1] = "value"
    /\ dtor = "returned"
    /\ \A w \in m_Workers : wpc[w] = "terminated"

\* ---------------------------------------------------------------- C30
\* C30: Crc32C(data, n, crc) returns the CRC-32C checksum, the value
\* SoftwareCrc32C(data, n, crc) returns, for every byte sequence, length and
\* initial value, on the hardware path and on the sliced software path.
C30_Crc32CIsCastagnoli ==
    checksums # NoChecksums => checksums.crc32c = checksums.software

\* where the three functions do agree: SlicedSoftwareCrc32C<16> with
\* SoftwareCrc32C on every input, and Crc32C with both on the hardware path
\* and on the empty input
C30_AgreesElsewhere ==
    checksums # NoChecksums =>
        /\ checksums.sliced = checksums.software
        /\ (input.hardware /\ Len(input.data) >= HardwareThreshold)
               => checksums.crc32c = checksums.software
        /\ Len(input.data) = 0 => checksums.crc32c = checksums.software

====
